---------------------------- MODULE Spec2Model ----------------------------
(***************************************************************************)
(* Mindmap canvas of pearlapp-mobile: the graph model (people list ->      *)
(* layout + connection data), the viewport (scale and translation) and     *)
(* the node and canvas gestures of                                         *)
(* src/components/mindmap/MindmapCanvas.tsx (the animated variant, lines   *)
(* 489-1338).                                                              *)
(*                                                                         *)
(* Conventions                                                             *)
(*  - A string is the sequence of its UTF-16 code units ("1" = <<49>>),    *)
(*    so that Array.prototype.sort's default (lexicographic) order and     *)
(*    join("-") are computed, not assumed.                                 *)
(*  - Array indices are the code's 0-based indices.                        *)
(*  - Scale values are in thousandths (1.0 = 1000); a pinch factor is in   *)
(*    thousandths too. Lengths (translations, drag offsets) are in         *)
(*    1/PointUnit of a point and velocities in 1/PointUnit of a point per  *)
(*    second; quotients round toward zero (Div).                           *)
(*  - An animation advances one frame per Frame step, FrameRate frames a   *)
(*    second. A spring is integrated per frame (semi-implicit Euler) from  *)
(*    the stiffness and damping the code passes to withSpring, mass 1,     *)
(*    and ends as the library does: snapped to its target once within the  *)
(*    rest displacement and under the rest speed.                          *)
(*  - A layout position is kept in polar form around the anchor:           *)
(*    radius r and angle 2*pi*num/den, i.e. the point                      *)
(*    (centerX + cos(angle)*r, centerY + sin(angle)*r).                    *)
(***************************************************************************)
EXTENDS Integers, Sequences, FiniteSets, TLC

VARIABLES
    allPeople,       \* MindmapScreen: the `people` data the screen filters
    filterTags,      \* MindmapScreen: the filterTags state
    people,          \* the `people` prop of MindmapCanvas (filteredPeople)
    peopleNodes,     \* useMemo(calculateTreeLayout(people, ...)).peopleNodes
    connectionData,  \* useMemo(connectionData)
    meNode,          \* useMemo(calculateTreeLayout(people, ...)).meNode
    mePos,           \* MindmapCanvas: meX.value, meY.value
    window,          \* Dimensions.get("window"): <<SCREEN_WIDTH, SCREEN_HEIGHT>>
    react,           \* React: the queued filterTags update, effects due, mounted nodes, timers
    uiNodes,         \* the peopleNodes the worklets on the UI thread were built from
    uiQueue,         \* what the JS thread has scheduled for the UI thread, in order
    scale,           \* MindmapCanvas: scale.value
    savedScale,      \* MindmapCanvas: savedScale.value
    scaleAnim,       \* the animation assigned to scale, if one is running
    pinch,           \* state of the canvas pinch recognizer
    taps,            \* button taps so far (bounded by MaxTaps)
    pinches,         \* pinch gestures so far (bounded by MaxPinches)
    lastOp,          \* the handler or frame that produced this state
    translateX,      \* MindmapCanvas: translateX.value
    translateY,      \* MindmapCanvas: translateY.value
    savedTranslateX, \* MindmapCanvas: savedTranslateX.value
    savedTranslateY, \* MindmapCanvas: savedTranslateY.value
    translateAnimX,  \* the animation assigned to translateX, if any
    translateAnimY,  \* the animation assigned to translateY, if any
    nodeState,       \* per rendered FloatingPersonNode: its shared values
    orphans,         \* shared values of unmounted nodes with work still pending
    positions,       \* MindmapCanvas: allPositions[0..19] (p0X/p0Y .. p19X/p19Y)
    early,           \* the early static MindmapCanvas: its props and shared values
    touch,           \* the pointer on the canvas and its gesture recognizers
    jsQueue,         \* runOnJS calls scheduled and not yet run
    callbacks        \* the persons onPersonPress has been called with

graphVars == <<allPeople, filterTags, people, peopleNodes, connectionData,
               meNode, mePos, window, react, uiNodes>>
scaleVars == <<scale, savedScale, scaleAnim, pinch, taps, pinches, lastOp>>
panVars == <<translateX, translateY, savedTranslateX, savedTranslateY,
             translateAnimX, translateAnimY>>
touchVars == <<touch, jsQueue, callbacks>>

vars == <<allPeople, filterTags, people, peopleNodes, connectionData,
          meNode, mePos, window, react, uiNodes, uiQueue,
          scale, savedScale, scaleAnim, pinch, taps, pinches, lastOp,
          translateX, translateY, savedTranslateX, savedTranslateY,
          translateAnimX, translateAnimY, nodeState, orphans, positions, early, touch,
          jsQueue,
          callbacks>>

---------------------------------------------------------------------------
(* Strings                                                                 *)

Hyphen == 45
Digit0 == 48

Min(a, b) == IF a <= b THEN a ELSE b
Max(a, b) == IF a >= b THEN a ELSE b

\* The decimal string of n, 0 <= n <= 99
Str(n) == IF n < 10 THEN <<Digit0 + n>> ELSE <<Digit0 + (n \div 10), Digit0 + (n % 10)>>

\* a < b in the order of the default sort comparator (UTF-16 code units)
RECURSIVE StrLess(_, _)
StrLess(a, b) ==
    IF b = <<>> THEN FALSE
    ELSE IF a = <<>> THEN TRUE
    ELSE IF Head(a) # Head(b) THEN Head(a) < Head(b)
    ELSE StrLess(Tail(a), Tail(b))

\* [a, b].sort()
SortPair(a, b) == IF StrLess(b, a) THEN <<b, a>> ELSE <<a, b>>

\* [x, y].join("-")
JoinPair(pair) == pair[1] \o <<Hyphen>> \o pair[2]

\* A variant that joins without sorting
DedupKeyUnsorted(personId, connId) == JoinPair(<<personId, connId>>)

\* [person.id, connId].sort().join("-")
DedupKey(personId, connId) == JoinPair(SortPair(personId, connId))

---------------------------------------------------------------------------
(* calculateTreeLayout                                                     *)

CenterShift == 120
firstRingRadius == 140
secondRingRadius == 250
thirdRingRadius == 360
FirstRingCapacity == 6
SecondRingCapacity == 10

Degree(p) == Len(p.connections)

\* One step of a stable sort by descending connections.length
RECURSIVE InsertByDegree(_, _)
InsertByDegree(s, p) ==
    IF s = <<>> THEN <<p>>
    ELSE IF Degree(Head(s)) >= Degree(p)
         THEN <<Head(s)>> \o InsertByDegree(Tail(s), p)
         ELSE <<p>> \o s

RECURSIVE SortByDegree(_, _)
SortByDegree(acc, rest) ==
    IF rest = <<>> THEN acc
    ELSE SortByDegree(InsertByDegree(acc, Head(rest)), Tail(rest))

\* A variant that keeps the input order
sortedPeopleUnsorted(ps) == ps

\* [...people].sort((a, b) => b.connections.length - a.connections.length)
sortedPeople(ps) == SortByDegree(<<>>, ps)

\* A variant with a first ring one slot short
firstRingCountShort(totalPeople) == Min(FirstRingCapacity - 1, totalPeople)

firstRingCount(totalPeople) == Min(FirstRingCapacity, totalPeople)
secondRingCount(totalPeople) ==
    Min(SecondRingCapacity, Max(0, totalPeople - FirstRingCapacity))

\* sortedPeople.slice(from, to), 0-based, to exclusive
Slice(s, from, to) == [i \in 1..(Min(to, Len(s)) - Min(from, Len(s))) |-> s[from + i]]

firstRingPeople(sorted) == Slice(sorted, 0, firstRingCount(Len(sorted)))
secondRingPeople(sorted) ==
    Slice(sorted, firstRingCount(Len(sorted)),
          firstRingCount(Len(sorted)) + secondRingCount(Len(sorted)))
thirdRingPeople(sorted) ==
    Slice(sorted, firstRingCount(Len(sorted)) + secondRingCount(Len(sorted)), Len(sorted))

\* The nodePositions.set calls, in the order the code makes them:
\* angle/(2*pi) = index/len - 1/4 (+ 1/(2*len) in the second ring)
RingEntries(ring, radius, offsetNum) ==
    [i \in 1..Len(ring) |->
        [id |-> ring[i].id,
         r |-> radius,
         num |-> 4 * (i - 1) - Len(ring) + offsetNum,
         den |-> 4 * Max(1, Len(ring))]]

nodePositionSets(ps) ==
    LET sorted == sortedPeople(ps)
    IN RingEntries(firstRingPeople(sorted), firstRingRadius, 0)
       \o RingEntries(secondRingPeople(sorted), secondRingRadius, 2)
       \o RingEntries(thirdRingPeople(sorted), thirdRingRadius, 0)

\* The angle 2*pi*num/den is pi (cos = -1, sin = 0)
AtPi(e) == (2 * e.num + 3 * e.den) % (2 * e.den) = 0
\* The angle 2*pi*num/den is -pi/2 (cos = 0, sin = -1)
AtMinusHalfPi(e) == (4 * e.num + 5 * e.den) % (4 * e.den) = 0
\* The angle 2*pi*num/den is -pi/6: Math.sin returns exactly -0.5 for the
\* angle as the code computes it (at 7*pi/6 and at the angles with cos = -1/2
\* the double is not the exact half)
AtMinusSixthPi(e) == (12 * e.num + 13 * e.den) % (12 * e.den) = 0

\* A position of the layout: the point at distance r from the canvas centre
\* at the angle 2*pi*num/den, with the y of the centre in place of its own
\* when yAtCenter is set
Polar(r, num, den, yAtCenter) ==
    [r |-> r, num |-> num, den |-> den, yAtCenter |-> yAtCenter]

\* x: nodePositions.get(id)?.x || centerX, y: nodePositions.get(id)?.y || centerY:
\* the last set for that key wins; the fallback is taken without an entry and
\* when the stored coordinate is 0, that is x = centerX - radius = 0 at the
\* angle pi, y = centerY - radius = 0 at the angle -pi/2 and
\* y = centerY - radius / 2 = 0 at the angle -pi/6. At pi and -pi/2 the other
\* coordinate is the centre's, so the fallback leaves the person on the
\* anchor, radius 0; at -pi/6 the person keeps the x of the ring and gets the
\* y of the centre. cx, cy are in half points.
NodePosition(sets, id, cx, cy) ==
    LET hits == {k \in 1..Len(sets) : sets[k].id = id}
    IN IF hits = {} THEN Polar(0, 0, 1, FALSE)
       ELSE LET k == CHOOSE k \in hits : \A j \in hits : j <= k
                e == sets[k]
            IN IF \/ AtPi(e) /\ 2 * e.r = cx
                  \/ AtMinusHalfPi(e) /\ 2 * e.r = cy
               THEN Polar(0, 0, 1, FALSE)
               ELSE Polar(e.r, e.num, e.den, AtMinusSixthPi(e) /\ e.r = cy)

\* "me"
MeId == <<109, 101>>

\* The canvas centre (centerX, centerY) in the polar form of the layout
Center == Polar(0, 0, 1, FALSE)

PosOf(n) == Polar(n.r, n.num, n.den, n.yAtCenter)

\* A variant that returns the anchor only when there are people to lay out
layoutMeNodeIfPeople(ps) ==
    IF Len(ps) = 0
    THEN [id |-> <<>>, isMe |-> FALSE, r |-> 0, num |-> 0, den |-> 0,
          yAtCenter |-> FALSE]
    ELSE [id |-> MeId, isMe |-> TRUE, r |-> Center.r, num |-> Center.num,
          den |-> Center.den, yAtCenter |-> Center.yAtCenter]

\* A variant that puts the anchor on the first ring when there are people
layoutMeNodeOnRing(ps) ==
    [id |-> MeId, isMe |-> TRUE,
     r |-> IF Len(ps) = 0 THEN Center.r ELSE firstRingRadius,
     num |-> Center.num, den |-> Center.den, yAtCenter |-> Center.yAtCenter]

\* calculateTreeLayout(people, centerX, centerY).meNode
layoutMeNode(ps) ==
    [id |-> MeId, isMe |-> TRUE, r |-> Center.r, num |-> Center.num,
     den |-> Center.den, yAtCenter |-> Center.yAtCenter]

\* A variant that takes the anchor where the viewport's translation has moved
\* it to, reading translateY at the time of the call
calculateTreeLayoutPanned(ps, cx, cy) ==
    IF Len(ps) = 0 THEN <<>>
    ELSE LET sets == nodePositionSets(ps)
         IN [i \in 1..Len(ps) |->
                LET pos == NodePosition(sets, ps[i].id, cx, cy)
                IN [id |-> ps[i].id, connections |-> ps[i].connections,
                    tags |-> ps[i].tags,
                    r |-> pos.r + translateY, num |-> pos.num, den |-> pos.den,
                    yAtCenter |-> pos.yAtCenter]]

\* MindmapCanvas: centerX = SCREEN_WIDTH / 2, centerY = SCREEN_HEIGHT / 2 - 120,
\* in half points
centerX == window[1]
centerY == window[2] - 2 * CenterShift

\* Window sizes in points: a phone, windows whose centre is one ring radius
\* away from the left or the top edge, and one whose centre is half the
\* first ring's radius below the top edge
StandardScreen == <<390, 844>>
Screens == {StandardScreen, <<390, 520>>, <<280, 844>>, <<500, 960>>, <<390, 380>>}

\* calculateTreeLayout(people, centerX, centerY).peopleNodes
calculateTreeLayout(ps, cx, cy) ==
    IF Len(ps) = 0 THEN <<>>
    ELSE LET sets == nodePositionSets(ps)
         IN [i \in 1..Len(ps) |->
                LET pos == NodePosition(sets, ps[i].id, cx, cy)
                IN [id |-> ps[i].id, connections |-> ps[i].connections,
                    tags |-> ps[i].tags,
                    r |-> pos.r, num |-> pos.num, den |-> pos.den,
                    yAtCenter |-> pos.yAtCenter]]

---------------------------------------------------------------------------
(* idToIndex and connectionData                                            *)

MaxSlots == 20
Undefined == -1

\* idToIndex.get(id): forEach sets index < 20 only, the last set wins
idToIndex(nodes, id) ==
    LET hits == {i \in 0..(Len(nodes) - 1) : i < MaxSlots /\ nodes[i + 1].id = id}
    IN IF hits = {} THEN Undefined ELSE CHOOSE i \in hits : \A j \in hits : j <= i

\* A variant of the anchor loop that skips the first person
AnchorEdgesSkipFirst(nodes) ==
    LET idx == {i \in 1..(Len(nodes) - 1) : i < MaxSlots}
    IN [k \in 1..Cardinality(idx) |->
          [key |-> MeId \o <<Hyphen>> \o nodes[k + 1].id, fromIndex |-> "me",
           toIndex |-> k, dashed |-> FALSE]]

\* A variant of the anchor loop without the index < 20 test
AnchorEdgesUncapped(nodes) ==
    [k \in 1..Len(nodes) |->
          [key |-> MeId \o <<Hyphen>> \o nodes[k].id, fromIndex |-> "me",
           toIndex |-> k - 1, dashed |-> FALSE]]

\* "Lines from Me to everyone": one entry per index < 20
AnchorEdges(nodes) ==
    LET idx == {i \in 0..(Len(nodes) - 1) : i < MaxSlots}
    IN [k \in 1..Cardinality(idx) |->
          [key |-> MeId \o <<Hyphen>> \o nodes[k].id, fromIndex |-> "me",
           toIndex |-> k - 1, dashed |-> FALSE]]

\* A variant of the forEach body without the drawn.has(key) test
PeerStepNoDedup(nodes, acc, index, connId) ==
    LET key == DedupKey(nodes[index + 1].id, connId)
        otherIndex == idToIndex(nodes, connId)
    IN IF otherIndex = Undefined \/ otherIndex >= MaxSlots
       THEN [drawn |-> acc.drawn \cup {key}, out |-> acc.out]
       ELSE [drawn |-> acc.drawn \cup {key},
             out |-> Append(acc.out,
                            [key |-> key, fromIndex |-> index,
                             toIndex |-> otherIndex, dashed |-> TRUE])]

\* The body of person.connections.forEach for one connId; acc = [drawn, out]
PeerStep(nodes, acc, index, connId) ==
    LET key == DedupKey(nodes[index + 1].id, connId)
        otherIndex == idToIndex(nodes, connId)
    IN IF key \in acc.drawn THEN acc
       ELSE IF otherIndex = Undefined \/ otherIndex >= MaxSlots
            THEN [drawn |-> acc.drawn \cup {key}, out |-> acc.out]
            ELSE [drawn |-> acc.drawn \cup {key},
                  out |-> Append(acc.out,
                                 [key |-> key, fromIndex |-> index,
                                  toIndex |-> otherIndex, dashed |-> TRUE])]

RECURSIVE PeerConns(_, _, _, _)
PeerConns(nodes, acc, index, c) ==
    IF c > Len(nodes[index + 1].connections) THEN acc
    ELSE PeerConns(nodes, PeerStep(nodes, acc, index, nodes[index + 1].connections[c]),
                   index, c + 1)

\* "Lines between connected people": peopleNodes.forEach, index >= 20 returns
RECURSIVE PeerLoop(_, _, _)
PeerLoop(nodes, acc, index) ==
    IF index >= Len(nodes) THEN acc
    ELSE IF index >= MaxSlots THEN PeerLoop(nodes, acc, index + 1)
    ELSE PeerLoop(nodes, PeerConns(nodes, acc, index, 1), index + 1)

PeerEdges(nodes) == PeerLoop(nodes, [drawn |-> {}, out |-> <<>>], 0).out

\* The connectionData memo
BuildConnectionData(nodes) == AnchorEdges(nodes) \o PeerEdges(nodes)

---------------------------------------------------------------------------
(* Inputs                                                                  *)

Person(id, conns, tags) == [id |-> id, connections |-> conns, tags |-> tags]

\* data/sampleData.ts: people (id, connections, tags)
SamplePeople ==
    << Person(Str(1), <<Str(2), Str(5)>>, {"Investor", "Mentor"}),
       Person(Str(2), <<Str(1), Str(3)>>, {"Community", "Candidate"}),
       Person(Str(3), <<Str(2), Str(4)>>, {"Community"}),
       Person(Str(4), <<Str(3), Str(5)>>, {"Friend", "Family"}),
       Person(Str(5), <<Str(1), Str(4)>>, {"Investor"}),
       Person(Str(6), <<Str(1)>>, {"Community", "Mentor"}) >>

\* The tags the filter sheet is exercised with
FilterTagChoices == {"Investor", "Community"}

\* Tags of a synthetic person, by position in its list
SynthTags(i) ==
    CASE i % 3 = 1 -> {"Investor"}
      [] i % 3 = 2 -> {"Community"}
      [] OTHER -> {"Investor", "Community"}

\* Small lists: every order of every subset of three ids, with connection
\* arrays over those ids and one id that is not a person, at most
\* MaxConnTotal entries in all.
MaxConnTotal == 3
SmallIds == {Str(1), Str(2), Str(3)}
AbsentId == Str(9)
ConnIds == SmallIds \cup {AbsentId}

SeqsUpTo(S, n) == UNION {[1..k -> S] : k \in 0..n}

DistinctIdLists ==
    {s \in SeqsUpTo(SmallIds, Cardinality(SmallIds)) :
        \A i, j \in 1..Len(s) : i # j => s[i] # s[j]}

RECURSIVE ConnAssignments(_, _)
\* all ways to give k people connection arrays with at most `budget` entries
ConnAssignments(k, budget) ==
    IF k = 0 THEN {<<>>}
    ELSE UNION {{<<c>> \o rest : rest \in ConnAssignments(k - 1, budget - Len(c))} :
                    c \in SeqsUpTo(ConnIds, budget)}

SmallPeopleOf(ids) ==
    {[i \in 1..Len(ids) |-> Person(ids[i], cs[i], SynthTags(i))] :
        cs \in ConnAssignments(Len(ids), MaxConnTotal)}

\* Large lists: n people "1".."n", person i listing its next d(i) successors
\* (cyclically), d(i) = (i * pattern) % 3; in the last pattern every person
\* lists one id, which is not a person
MaxBigPeople == 22
BigPatterns == 0..3
BigAbsentId == Str(99)

BigPeople(n, pattern) ==
    [i \in 1..n |->
        Person(Str(i),
               IF pattern = 3
               THEN <<BigAbsentId>>
               ELSE [k \in 1..Min((i * pattern) % 3, n - 1) |->
                        Str(((i - 1 + k) % n) + 1)],
               SynthTags(i))]

BigLists == {BigPeople(n, p) : n \in 0..MaxBigPeople, p \in BigPatterns}

\* people.filter(p => filterTags.some(t => p.tags.includes(t)))
RECURSIVE FilterByTags(_, _)
FilterByTags(s, tags) ==
    IF s = <<>> THEN <<>>
    ELSE IF \E t \in tags : t \in Head(s).tags
         THEN <<Head(s)>> \o FilterByTags(Tail(s), tags)
         ELSE FilterByTags(Tail(s), tags)

\* MindmapScreen.filteredPeople
filteredPeople(all, tags) == IF tags = {} THEN all ELSE FilterByTags(all, tags)

---------------------------------------------------------------------------
(* Viewport: scale, pinch, zoom buttons, reset, spring frames              *)

INITIAL_SCALE == 1000
MIN_SCALE == 300
MAX_SCALE == 3000
ZoomStepNum == 14
ZoomStepDen == 10
CanvasSpringDamping == 15
CanvasSpringStiffness == 150
\* Fixed point: a scale or a factor of 1.0 is Unit, a length of one point is
\* PointUnit; a second has Unit milliseconds
Unit == 1000
PointUnit == 10000
\* withSpring defaults: restDisplacementThreshold 0.01, restSpeedThreshold 2
RestDisplacement(unit) == unit \div 100
RestSpeed(unit) == 2 * unit

\* FloatingPersonNode and the canvas pan
NODE_RADIUS == 36
PanMinDistance == 5
CanvasPanMinDistance == 10
NodeDeceleration == 992
CanvasDeceleration == 997
NodeSpringDamping == 12
NodeSpringStiffness == 40
FloatDelaySlots == 8
FloatDelayStep == 300
\* withDecay ends under a velocity of 1 point per second
VELOCITY_EPS == PointUnit

FrameRate == 60
MaxTaps == 1
MaxPinches == 2

\* event.scale values a pinch update is exercised with, in thousandths:
\* 0.001, 2.2 and 100
PinchFactors == {1, 2200, 100000}

Abs(x) == IF x >= 0 THEN x ELSE -x
\* integer quotient rounded toward zero
Div(a, b) == IF a >= 0 THEN a \div b ELSE -((-a) \div b)

\* A variant that clamps from below only
clampLowOnly(v, min, max) == Max(min, v)

\* clamp(v, min, max) = Math.max(min, Math.min(max, v))
clamp(v, min, max) == Max(min, Min(max, v))

NoAnim == [kind |-> "none", target |-> 0, velocity |-> 0]
Spring(target, velocity) == [kind |-> "spring", target |-> target, velocity |-> velocity]
Decay(velocity) == [kind |-> "decay", target |-> 0, velocity |-> velocity]

\* value = withSpring(target): the running animation is replaced and its
\* velocity carries over; nothing is started when the value is at the target
withSpring(current, target, previous) ==
    IF current = target THEN NoAnim ELSE Spring(target, previous.velocity)

\* One frame of a spring on the value x
SpringFrame(x, anim, stiffness, damping, unit) ==
    LET a == -(stiffness * (x - anim.target) + damping * anim.velocity)
        v2 == anim.velocity + Div(a, FrameRate)
        x2 == x + Div(v2, FrameRate)
    IN IF Abs(x2 - anim.target) < RestDisplacement(unit) /\ Abs(v2) < RestSpeed(unit)
       THEN [x |-> anim.target, anim |-> NoAnim]
       ELSE [x |-> x2, anim |-> Spring(anim.target, v2)]

\* deceleration ^ n, in millionths (the deceleration is per mille)
RECURSIVE DecayKv(_, _)
DecayKv(deceleration, n) ==
    IF n = 0 THEN Unit * Unit
    ELSE (DecayKv(deceleration, n - 1) * deceleration) \div Unit

\* withDecay, one frame of deltaTime milliseconds from the velocity v:
\*   kv = deceleration ^ deltaTime, kx = deceleration * (1 - kv) / (1 - deceleration)
\*   velocity = v * kv, position = x + (v / 1000) * kx
DecayStep(x, v, deceleration) ==
    LET kv == DecayKv(deceleration, Div(Unit, FrameRate))
        kx == Div(deceleration * (Unit * Unit - kv), Unit * (Unit - deceleration))
    IN [x |-> x + Div(Div(v, Unit) * kx, Unit),
        v |-> v - Div(v * (Unit - Div(kv, Unit)), Unit)]

\* One frame of a decay without a callback: it ends under VELOCITY_EPS
DecayFrame(x, anim, deceleration) ==
    LET d == DecayStep(x, anim.velocity, deceleration)
    IN [x |-> d.x,
        anim |-> IF Abs(d.v) < VELOCITY_EPS THEN NoAnim ELSE Decay(d.v)]

\* value = withDecay({velocity}): the first step runs at once and ends the
\* animation when the velocity is already under VELOCITY_EPS
withDecayReversed(velocity) == IF Abs(velocity) < VELOCITY_EPS THEN NoAnim ELSE Decay(-velocity)
withDecay(velocity) == IF Abs(velocity) < VELOCITY_EPS THEN NoAnim ELSE Decay(velocity)

\* One frame of whatever runs on a canvas value (scale, translateX/Y)
CanvasFrame(x, anim, unit) ==
    IF anim.kind = "spring"
    THEN SpringFrame(x, anim, CanvasSpringStiffness, CanvasSpringDamping, unit)
    ELSE IF anim.kind = "decay" THEN DecayFrame(x, anim, CanvasDeceleration)
    ELSE [x |-> x, anim |-> anim]

---------------------------------------------------------------------------
(* The two threads. Handlers of Pressables, React renders, effects and     *)
(* timers run on the JS thread; gesture callbacks, animation frames and    *)
(* animated styles run on the UI thread. On the JS thread a read of a      *)
(* shared value returns its current value, an assignment to one is only    *)
(* scheduled and is carried out on the UI thread later, in order.          *)

\* A job scheduled for the UI thread: the assignment of a zoom or reset press
\* (target: the scale to spring to), the views and worklets of a commit
\* (nodes: the peopleNodes they were rendered from), or the assignments of a
\* float timer's callback (nodes: the node whose floatX and floatY it assigns)
Job(op, target, nodes) == [op |-> op, target |-> target, nodes |-> nodes]

\* Commits in flight at one time: rendered, and not yet taken over by the UI
\* thread
MaxCommits == 2

\* The commits on their way to the UI thread
CommitsInFlight ==
    Cardinality({k \in 1..Len(uiQueue) : uiQueue[k].op = "commit"})
        + (IF react.effectsDue THEN 1 ELSE 0)

---------------------------------------------------------------------------
(* FloatingPersonNode: shared values, float timer, drag handlers           *)

\* nodeScale.value = withSpring(0.92 | 1.12 | 1): the press feedback
PressedScale == 920
DraggedScale == 1120

\* nodeScale: the spring of the press feedback is not computed frame by frame;
\* the node keeps the interval its value lies in (lo = hi at rest), and an
\* assignment of withSpring(target) stretches the interval to the target. The
\* spring's overshoot past its target is left out.
NodeScaleRest == [lo |-> INITIAL_SCALE, hi |-> INITIAL_SCALE]
NodeScaleTo(ns, target) == [lo |-> Min(ns.lo, target), hi |-> Max(ns.hi, target)]

\* The shared values of a node at mount
NodeInit ==
    [dragX |-> 0, dragY |-> 0, savedDragX |-> 0, savedDragY |-> 0,
     animX |-> NoAnim, animY |-> NoAnim,
     nodeScale |-> NodeScaleRest,
     cbX |-> FALSE, cbY |-> FALSE,       \* a cancelled decay's callback is due
     floating |-> FALSE]                 \* floatX/floatY run their withRepeat

\* peopleNodes.slice(0, 20)
Rendered(pn) == Slice(pn, 0, MaxSlots)

\* 1-based position of the node rendered for a person id, 0 if there is none
NodeOf(pn, id) ==
    LET r == Rendered(pn)
        hits == {i \in 1..Len(r) : r[i].id = id}
    IN IF hits = {} THEN 0 ELSE CHOOSE i \in hits : \A j \in hits : i <= j

MountNodes(pn) == [i \in 1..Len(Rendered(pn)) |-> NodeInit]

\* React with the node components of the list pn mounted and their effects
\* run, no update queued: `timers` holds, per rendered node, the setTimeout of
\* its float effect: 0 when it has fired or is cleared, 1 when the latest run
\* of the effects armed it, and 2, 3, ... when an earlier run did, the higher
\* the earlier
ReactMounted(pn, timer) ==
    [queued |-> <<>>, effectsDue |-> FALSE, mounted |-> pn,
     timers |-> [i \in 1..Len(Rendered(pn)) |-> timer]]

\* A re-render with a new list: a node is keyed by person.id, so a person who
\* stays keeps the shared values; the float effect depends on [index], and its
\* cleanup cancels floatX and floatY only when the index changed
Relayout(oldPn, oldNodes, newPn) ==
    [i \in 1..Len(Rendered(newPn)) |->
        LET j == NodeOf(oldPn, Rendered(newPn)[i].id)
        IN IF j = 0 THEN NodeInit
           ELSE IF j = i THEN oldNodes[j]
           ELSE [oldNodes[j] EXCEPT !.floating = FALSE]]

\* The float effects after a commit, in one JS task: the cleanup of a node
\* that is unmounted or whose index changed clears its timer, and the effect
\* of a node that is new or whose index changed arms one
EffectTimers(oldPn, timers, newPn) ==
    LET aged == [i \in 1..Len(Rendered(newPn)) |->
                   LET j == NodeOf(oldPn, Rendered(newPn)[i].id)
                   IN IF j = i THEN (IF timers[j] = 0 THEN 0 ELSE timers[j] + 1)
                      ELSE 1]
    IN [i \in DOMAIN aged |->
          IF aged[i] <= 1 THEN aged[i]
          ELSE 1 + Cardinality({aged[k] : k \in {k \in DOMAIN aged :
                                   aged[k] >= 2 /\ aged[k] <= aged[i]}})]

\* const delay = (index % 8) * 300, for the 1-based position i
FloatDelay(i) == ((i - 1) % FloatDelaySlots) * FloatDelayStep

\* Timers armed by one run of the effects fire by delay, then in creation
\* order; a timer of an earlier run fires before a later one with no smaller
\* delay
MustPrecede(timers, j, i) ==
    /\ timers[j] # 0
    /\ timers[i] # 0
    /\ \/ timers[j] = timers[i]
          /\ (FloatDelay(j) < FloatDelay(i) \/ (FloatDelay(j) = FloatDelay(i) /\ j < i))
       \/ timers[j] > timers[i]
          /\ FloatDelay(j) <= FloatDelay(i)

\* panGesture.onStart
PanOnStart(n) ==
    [n EXCEPT !.animX = NoAnim, !.animY = NoAnim,
              !.cbX = @ \/ n.animX.kind = "decay",
              !.cbY = @ \/ n.animY.kind = "decay",
              !.savedDragX = n.dragX, !.savedDragY = n.dragY,
              !.nodeScale = NodeScaleTo(@, DraggedScale)]

\* A variant that adds the translation as it is, whatever the scale
PanOnUpdateUnscaled(n, canvasScale, translationX, translationY) ==
    [n EXCEPT !.dragX = n.savedDragX + translationX * PointUnit,
              !.dragY = n.savedDragY + translationY * PointUnit,
              !.animX = NoAnim, !.animY = NoAnim,
              !.cbX = @ \/ n.animX.kind = "decay",
              !.cbY = @ \/ n.animY.kind = "decay"]

\* panGesture.onUpdate with event.translationX/Y (points)
PanOnUpdate(n, canvasScale, translationX, translationY) ==
    [n EXCEPT !.dragX = n.savedDragX + Div(translationX * PointUnit * Unit, canvasScale),
              !.dragY = n.savedDragY + Div(translationY * PointUnit * Unit, canvasScale),
              !.animX = NoAnim, !.animY = NoAnim,
              !.cbX = @ \/ n.animX.kind = "decay",
              !.cbY = @ \/ n.animY.kind = "decay"]

\* A variant whose decay has no callback: nothing springs back
NodeDecayNoCallback(x, velocity) == withDecay(velocity)

\* dragX.value = withDecay({velocity, deceleration: 0.992}, callback)
NodeDecay(x, velocity) ==
    IF Abs(velocity) < VELOCITY_EPS THEN withSpring(x, 0, Decay(velocity))
    ELSE Decay(velocity)

\* panGesture.onEnd with event.velocityX/Y (PointUnit per second)
PanOnEnd(n, canvasScale, velocityX, velocityY) ==
    [n EXCEPT !.nodeScale = NodeScaleTo(@, INITIAL_SCALE),
              !.animX = NodeDecay(n.dragX, Div(velocityX * Unit, canvasScale)),
              !.animY = NodeDecay(n.dragY, Div(velocityY * Unit, canvasScale)),
              !.cbX = @ \/ n.animX.kind = "decay",
              !.cbY = @ \/ n.animY.kind = "decay"]

\* One frame of one drag axis. The callback of a decay runs when the decay
\* ends and also, with finished = false, on the frame after it was cancelled;
\* either way it assigns withSpring(0, {damping: 12, stiffness: 40})
DragFrame(x, anim, cb) ==
    IF cb THEN [x |-> x, anim |-> withSpring(x, 0, anim)]
    ELSE IF anim.kind = "decay"
    THEN LET d == DecayStep(x, anim.velocity, NodeDeceleration)
         IN [x |-> d.x, anim |-> NodeDecay(d.x, d.v)]
    ELSE IF anim.kind = "spring"
    THEN SpringFrame(x, anim, NodeSpringStiffness, NodeSpringDamping, PointUnit)
    ELSE [x |-> x, anim |-> anim]

NodeFrame(n) ==
    LET fx == DragFrame(n.dragX, n.animX, n.cbX)
        fy == DragFrame(n.dragY, n.animY, n.cbY)
    IN [n EXCEPT !.dragX = fx.x, !.animX = fx.anim, !.cbX = FALSE,
                 !.dragY = fy.x, !.animY = fy.anim, !.cbY = FALSE]

NodeAnimating(n) ==
    n.animX.kind # "none" \/ n.animY.kind # "none" \/ n.cbX \/ n.cbY

\* An oscillation, an animation or a callback of the node is pending
Pending(n) == NodeAnimating(n) \/ n.floating

\* The positions of the nodes of the old list that the new list does not render
Unmounted(oldPn, newPn) ==
    {j \in 1..Len(Rendered(oldPn)) : NodeOf(newPn, Rendered(oldPn)[j].id) = 0}

\* A node unmounts: the cleanup of the float effect cancels floatX and
\* floatY; useSharedValue cancels the animation of each shared value, dragX
\* and dragY included, and a cancelled decay still owes its callback
Unmount(n) ==
    [n EXCEPT !.floating = FALSE,
              !.animX = NoAnim, !.animY = NoAnim,
              !.cbX = @ \/ n.animX.kind = "decay",
              !.cbY = @ \/ n.animY.kind = "decay"]

---------------------------------------------------------------------------
(* Gesture recognizers. A recognizer is "began" once the pointer is down,  *)
(* "awaiting" when its criteria are met but a recognizer it must wait for  *)
(* is still possible, then "active", and finally "ended", "failed" or      *)
(* "cancelled". Node: Gesture.Exclusive(tapGesture, panGesture), so the    *)
(* node pan waits for the tap to fail. Canvas: Gesture.Simultaneous(pan,   *)
(* pinch). No relation is declared between node and canvas gestures: the   *)
(* first of them to activate cancels the recognizers that only began.      *)

\* The position a node publishes for its edges, as the sum it is: the base
\* position of the layout, the current floatX/floatY value of the node's own
\* oscillation (named by the node's id; the model does not compute the value),
\* and the drag offset
Composed(node, dragX, dragY) ==
    [base |-> PosOf(node), floatOf |-> node.id, dragX |-> dragX, dragY |-> dragY]

\* A position slot no node has written: useSharedValue(peopleNodes[k]?.x ?? 0)
SlotUnset ==
    [base |-> Polar(0, 0, 0, FALSE), floatOf |-> <<>>, dragX |-> 0, dragY |-> 0]

\* animatedStyle: currentX = baseX + floatX.value + dragX.value (the node is
\* drawn at currentX - NODE_RADIUS) and posX.value = currentX
StylePosition(node, n) == Composed(node, n.dragX, n.dragY)

\* A variant of onUpdate that leaves the oscillation offset out
DragPositionNoFloat(node, n) ==
    [Composed(node, n.dragX, n.dragY) EXCEPT !.floatOf = <<>>]

\* panGesture.onUpdate: posX.value = baseX + floatX.value + newDragX, for the
\* node n after the update
DragPosition(node, n) == Composed(node, n.dragX, n.dragY)

\* The slots at mount: a mounted node's style has run once
MountPositions(pn, ns) ==
    [k \in 1..MaxSlots |->
        IF k <= Len(ns) THEN StylePosition(Rendered(pn)[k], ns[k]) ELSE SlotUnset]

\* A frame: the style of a node runs again when a value it reads changed, that
\* is when the node oscillates or its drag offset moved in this frame
FramePositions(pn, ns, pos) ==
    [k \in 1..MaxSlots |->
        IF k <= Len(ns) /\ (ns[k].floating \/ NodeFrame(ns[k]) # ns[k])
        THEN StylePosition(Rendered(pn)[k], NodeFrame(ns[k]))
        ELSE pos[k]]

\* A variant in which a node that only changes its slot does not publish
RelayoutPositionsKeepSlot(oldPn, pos, newPn, newNs) ==
    [k \in 1..MaxSlots |->
        IF k <= Len(newNs) /\ NodeOf(oldPn, Rendered(newPn)[k].id) = 0
        THEN StylePosition(Rendered(newPn)[k], newNs[k])
        ELSE pos[k]]

\* A re-render with a new list: the style of a node runs again when the node
\* is new or when its closure changed (another slot or another base position);
\* the slots past the new list keep what they held
RelayoutPositions(oldPn, pos, newPn, newNs) ==
    [k \in 1..MaxSlots |->
        IF k > Len(newNs) THEN pos[k]
        ELSE LET j == NodeOf(oldPn, Rendered(newPn)[k].id)
             IN IF j = 0 \/ j # k \/ PosOf(Rendered(oldPn)[j]) # PosOf(Rendered(newPn)[k])
                THEN StylePosition(Rendered(newPn)[k], newNs[k])
                ELSE pos[k]]

---------------------------------------------------------------------------
(* The early static MindmapCanvas (src/unnamed/part_009): people carry     *)
(* their own coordinates, the viewport is centred on them until the user   *)
(* moves it                                                                *)

EARLY_MIN_SCALE == 500
EARLY_CANVAS_HEIGHT_OFFSET == 200
EarlyZoomStepNum == 12
\* withSpring(toValue) without a config: damping 10, stiffness 100
EarlySpringDamping == 10
EarlySpringStiffness == 100

MaxEarlyPans == 1
MaxEarlyPinches == 1
\* JS-thread writes waiting for the UI thread at one time
MaxEarlyPending == 2

\* Every variable of the current canvas and its screen
mainVars == <<allPeople, filterTags, people, peopleNodes, connectionData,
              meNode, mePos, window, react, uiNodes, uiQueue,
              scale, savedScale, scaleAnim, pinch, taps, pinches, lastOp,
              translateX, translateY, savedTranslateX, savedTranslateY,
              translateAnimX, translateAnimY, nodeState, orphans, positions, touch,
              jsQueue, callbacks>>

\* A person of the early canvas: x and y are optional (<<>> when absent)
EarlyPerson(x, y) == [x |-> x, y |-> y]

SetMin(S) == CHOOSE m \in S : \A n \in S : m <= n
SetMax(S) == CHOOSE m \in S : \A n \in S : m >= n

\* The initialOffset memo, in PointUnit; screen = <<SCREEN_WIDTH, SCREEN_HEIGHT>>
initialOffset(ps, screen) ==
    LET xs == {ps[i].x[1] : i \in {j \in 1..Len(ps) : ps[j].x # <<>>}}
        ys == {ps[i].y[1] : i \in {j \in 1..Len(ps) : ps[j].y # <<>>}}
    IN IF xs = {} \/ ys = {} THEN [x |-> 0, y |-> 0]
       ELSE [x |-> Div(screen[1] * PointUnit, 2)
                     - Div((SetMin(xs) + SetMax(xs)) * PointUnit, 2),
             y |-> Div((screen[2] - EARLY_CANVAS_HEIGHT_OFFSET) * PointUnit, 2)
                     - Div((SetMin(ys) + SetMax(ys)) * PointUnit, 2)]

\* A write to shared values made on the JS thread and not yet carried out
\* on the UI thread: the six assignments of the effect (op "effect", the
\* offset in x and y) or the two of a zoom button (ops "zoomIn" and "zoomOut",
\* the spring's target)
EarlyJob(op, x, y, target) == [op |-> op, x |-> x, y |-> y, target |-> target]

EarlyUnmounted ==
    [mounted |-> FALSE, screen |-> <<0, 0>>, people |-> <<>>,
     offset |-> [x |-> 0, y |-> 0],
     tx |-> 0, ty |-> 0, savedTx |-> 0, savedTy |-> 0,
     scale |-> INITIAL_SCALE, savedScale |-> INITIAL_SCALE, scaleAnim |-> NoAnim,
     userMoved |-> FALSE, pan |-> "idle", pinch |-> "idle",
     pans |-> 0, pinches |-> 0, taps |-> 0, pending |-> <<>>, op |-> "none"]

\* The body of the effect on [initialOffset.x, initialOffset.y], on the JS
\* thread: userMoved is read now, the assignments are carried out later
EarlyEffect(e, off) ==
    IF e.userMoved THEN e
    ELSE [e EXCEPT !.pending = Append(@, EarlyJob("effect", off.x, off.y, 0))]

\* The first render and its effect
EarlyMount(ps, screen) ==
    LET off == initialOffset(ps, screen)
    IN EarlyEffect([EarlyUnmounted EXCEPT
                      !.mounted = TRUE, !.screen = screen, !.people = ps,
                      !.offset = off, !.tx = off.x, !.ty = off.y,
                      !.savedTx = off.x, !.savedTy = off.y, !.op = "mount"], off)

\* A render with a new people prop: the memo is recomputed and the effect
\* runs when one of its dependencies has changed
EarlyRender(ps) ==
    LET off == initialOffset(ps, early.screen)
        e == [early EXCEPT !.people = ps, !.offset = off, !.op = "people"]
    IN /\ early.mounted
       /\ ps # early.people
       /\ (off # early.offset /\ ~early.userMoved) => Len(early.pending) < MaxEarlyPending
       /\ early' = IF off # early.offset THEN EarlyEffect(e, off) ELSE e
       /\ UNCHANGED mainVars

\* The writes of the JS thread arrive on the UI thread in the order in which
\* they were made, among the gesture callbacks and the frames
EarlyRunOnUI ==
    /\ early.pending # <<>>
    /\ LET job == Head(early.pending)
           e == [early EXCEPT !.pending = Tail(@), !.op = job.op]
       IN early' = IF job.op = "effect"
                   THEN [e EXCEPT !.tx = job.x, !.ty = job.y,
                                  !.savedTx = job.x, !.savedTy = job.y,
                                  !.scale = INITIAL_SCALE, !.scaleAnim = NoAnim,
                                  !.savedScale = INITIAL_SCALE]
                   ELSE [e EXCEPT !.userMoved = TRUE,
                                  !.scaleAnim = withSpring(early.scale, job.target,
                                                           early.scaleAnim)]
    /\ UNCHANGED mainVars

\* panGesture.onStart
EarlyPanStart ==
    /\ early.mounted /\ early.pan = "idle" /\ early.pans < MaxEarlyPans
    /\ early' = [early EXCEPT !.userMoved = TRUE, !.savedTx = early.tx,
                              !.savedTy = early.ty, !.pan = "active",
                              !.pans = @ + 1, !.op = "panStart"]
    /\ UNCHANGED mainVars

\* panGesture.onUpdate
EarlyPanUpdate(translationX, translationY) ==
    /\ early.pan = "active"
    /\ early' = [early EXCEPT !.tx = early.savedTx + translationX * PointUnit,
                              !.ty = early.savedTy + translationY * PointUnit,
                              !.op = "panUpdate"]
    /\ UNCHANGED mainVars

EarlyPanEnd ==
    /\ early.pan = "active"
    /\ early' = [early EXCEPT !.pan = "idle", !.op = "panEnd"]
    /\ UNCHANGED mainVars

\* pinchGesture.onStart
EarlyPinchStart ==
    /\ early.mounted /\ early.pinch = "idle" /\ early.pinches < MaxEarlyPinches
    /\ early' = [early EXCEPT !.userMoved = TRUE, !.savedScale = early.scale,
                              !.pinch = "active", !.pinches = @ + 1,
                              !.op = "pinchStart"]
    /\ UNCHANGED mainVars

\* pinchGesture.onUpdate
EarlyPinchUpdate(factor) ==
    /\ early.pinch = "active"
    /\ early' = [early EXCEPT
                   !.scale = clamp(Div(early.savedScale * factor, Unit),
                                   EARLY_MIN_SCALE, MAX_SCALE),
                   !.scaleAnim = NoAnim, !.op = "pinchUpdate"]
    /\ UNCHANGED mainVars

EarlyPinchEnd ==
    /\ early.pinch = "active"
    /\ early' = [early EXCEPT !.pinch = "idle", !.op = "pinchEnd"]
    /\ UNCHANGED mainVars

\* zoomIn, on the JS thread: scale is read now, userMoved and scale are
\* written later
EarlyZoomIn ==
    /\ early.mounted /\ early.taps < MaxTaps
    /\ Len(early.pending) < MaxEarlyPending
    /\ early' = [early EXCEPT
                   !.pending = Append(@, EarlyJob("zoomIn", 0, 0,
                                          clamp(Div(early.scale * EarlyZoomStepNum,
                                                    ZoomStepDen),
                                                EARLY_MIN_SCALE, MAX_SCALE))),
                   !.taps = @ + 1, !.op = "pressZoomIn"]
    /\ UNCHANGED mainVars

\* zoomOut, on the JS thread
EarlyZoomOut ==
    /\ early.mounted /\ early.taps < MaxTaps
    /\ Len(early.pending) < MaxEarlyPending
    /\ early' = [early EXCEPT
                   !.pending = Append(@, EarlyJob("zoomOut", 0, 0,
                                          clamp(Div(early.scale * ZoomStepDen,
                                                    EarlyZoomStepNum),
                                                EARLY_MIN_SCALE, MAX_SCALE))),
                   !.taps = @ + 1, !.op = "pressZoomOut"]
    /\ UNCHANGED mainVars

\* One animation frame of the scale spring
EarlyFrame ==
    /\ early.scaleAnim.kind = "spring"
    /\ LET f == SpringFrame(early.scale, early.scaleAnim, EarlySpringStiffness,
                            EarlySpringDamping, Unit)
       IN early' = [early EXCEPT !.scale = f.x, !.scaleAnim = f.anim, !.op = "frame"]
    /\ UNCHANGED mainVars

---------------------------------------------------------------------------
(* Touches                                                                 *)

NoTouch ==
    [phase |-> "none", target |-> "none", id |-> <<>>,
     offX |-> 0, offY |-> 0, maxDistSq |-> 0,
     tap |-> "none", nodePan |-> "none", canvasPan |-> "none",
     timedOut |-> FALSE, velocityX |-> 0, velocityY |-> 0,
     calls |-> 0, dragStarted |-> FALSE, dragUpdated |-> FALSE,
     startTranslateX |-> 0, startTranslateY |-> 0]

\* Pointer offsets from the touch-down point, in points: under both pan
\* thresholds, between them, past both, and off the node
Offsets == {<<3, 0>>, <<6, 0>>, <<0, -12>>, <<-40, 0>>}

\* event.velocityX/Y at release, in PointUnit per second: at rest, and
\* 60 points a second leftwards with 150 points a second downwards
Velocities == {<<0, 0>>, <<-600000, 1500000>>}

\* (scale, savedScale) pairs a touch sequence is exercised at
TouchScales == {<<INITIAL_SCALE, INITIAL_SCALE>>, <<MIN_SCALE, INITIAL_SCALE>>}

\* The pointer went down at the centre of a node circle and, (dx, dy) screen
\* points away from there, has left the node view. The view is
\* 2 * NODE_RADIUS wide with the circle at its top, it is scaled by nodeScale
\* and lies inside the transformLayer, which is scaled by the canvas scale: a
\* screen offset d is d / canvasScale in the layer. Offsets here never
\* point down, where the view goes on below the circle.
OutsideNode(dx, dy, canvasScale, nodeScale) ==
    \/ Abs(dx) * Unit * Unit > NODE_RADIUS * nodeScale * canvasScale
    \/ -dy * Unit * Unit > NODE_RADIUS * nodeScale * canvasScale

\* tapGesture.onStart and onEnd, which run one after the other when the tap
\* ends: nodeScale.value = withSpring(0.92), then withSpring(1)
TapFeedback(n) ==
    [n EXCEPT !.nodeScale = NodeScaleTo(NodeScaleTo(@, PressedScale), INITIAL_SCALE)]

InitTouch ==
    /\ translateX = 0 /\ translateY = 0
    /\ savedTranslateX = 0 /\ savedTranslateY = 0
    /\ translateAnimX = NoAnim /\ translateAnimY = NoAnim
    /\ nodeState = MountNodes(peopleNodes)
    /\ orphans = {}
    /\ positions = MountPositions(peopleNodes, nodeState)
    /\ early = EarlyUnmounted
    /\ uiQueue = <<>>
    /\ touch = NoTouch
    /\ jsQueue = <<>>
    /\ callbacks = <<>>

\* The setTimeout callback of a node's float effect, on the JS thread: its
\* assignments floatX.value = withRepeat(...), floatY.value = withRepeat(...)
\* are handed to the UI thread
FloatTimer(i) ==
    /\ i \in 1..Len(react.timers)
    /\ react.timers[i] # 0
    /\ \A j \in 1..Len(react.timers) : ~MustPrecede(react.timers, j, i)
    /\ react' = [react EXCEPT !.timers[i] = 0]
    /\ uiQueue' = Append(uiQueue, Job("float", 0, <<Rendered(react.mounted)[i]>>))
    /\ lastOp' = "floatTimer"
    /\ UNCHANGED <<allPeople, filterTags, people, peopleNodes, connectionData,
                    meNode, mePos, window, uiNodes>>
    /\ UNCHANGED <<nodeState, orphans, positions, early>>
    /\ UNCHANGED <<scale, savedScale, scaleAnim, pinch, taps, pinches>>
    /\ UNCHANGED <<panVars, touchVars>>

\* The UI thread carries out the assignments of a float timer's callback: the
\* node oscillates
RunFloat ==
    /\ uiQueue # <<>>
    /\ Head(uiQueue).op = "float"
    /\ LET k == NodeOf(uiNodes, Head(uiQueue).nodes[1].id)
       IN nodeState' = IF k = 0 THEN nodeState
                       ELSE [nodeState EXCEPT ![k].floating = TRUE]
    /\ uiQueue' = Tail(uiQueue)
    /\ lastOp' = "float"
    /\ UNCHANGED <<orphans, positions, early>>
    /\ UNCHANGED <<scale, savedScale, scaleAnim, pinch, taps, pinches>>
    /\ UNCHANGED <<panVars, touchVars>>

\* The pointer goes down on a node, on the anchor or on the empty canvas
TouchDown(target, id) ==
    /\ touch.phase = "none"
    /\ \/ target = "node" /\ NodeOf(uiNodes, id) # 0
       \/ target \in {"anchor", "canvas"} /\ id = <<>>
    /\ touch' = [NoTouch EXCEPT
                   !.phase = "down", !.target = target, !.id = id,
                   !.tap = IF target = "node" THEN "began" ELSE "none",
                   !.nodePan = IF target = "node" THEN "began" ELSE "none",
                   !.canvasPan = "began",
                   !.startTranslateX = translateX,
                   !.startTranslateY = translateY]
    /\ lastOp' = "touchDown"
    /\ UNCHANGED <<scale, savedScale, scaleAnim, pinch, taps, pinches>>
    /\ UNCHANGED <<panVars, nodeState, orphans, positions, early, uiQueue, jsQueue, callbacks>>

\* The recognizers after a pointer event, in delivery order (tap, node pan,
\* canvas pan). tapNow is the tap's state after its own step; canvasWins
\* says whether an awaiting node pan is cancelled with the tap (TRUE) or
\* activates once the tap is out of the way (FALSE) when the canvas pan
\* activates first: the platforms differ
Recognize(t, dx, dy, tapNow, canvasWins) ==
    LET distSq == dx * dx + dy * dy
        nodeReady == \/ t.nodePan = "awaiting"
                     \/ t.nodePan = "began" /\ distSq >= PanMinDistance * PanMinDistance
        nodeStarts == nodeReady /\ tapNow # "began"
        canvasPan1 == IF nodeStarts /\ t.canvasPan = "began" THEN "cancelled"
                      ELSE t.canvasPan
        canvasStarts == /\ canvasPan1 = "began"
                        /\ distSq >= CanvasPanMinDistance * CanvasPanMinDistance
        nodeLate == canvasStarts /\ nodeReady /\ ~nodeStarts /\ ~canvasWins
    IN [tap |-> IF canvasStarts /\ tapNow = "began" THEN "cancelled" ELSE tapNow,
        nodePan |-> IF t.nodePan = "active" THEN "active"
                    ELSE IF nodeStarts \/ nodeLate THEN "active"
                    ELSE IF canvasStarts /\ t.nodePan \in {"began", "awaiting"}
                         THEN "cancelled"
                    ELSE IF nodeReady THEN "awaiting"
                    ELSE t.nodePan,
        canvasPan |-> IF canvasStarts THEN "active" ELSE canvasPan1,
        nodeStarts |-> nodeStarts \/ nodeLate,
        canvasStarts |-> canvasStarts]

\* The values nodeScale.value of the touched node can have: the ends of its
\* interval decide on which side of the view's edge an offset falls
NodeScalesOf(t) ==
    IF t.target = "node" /\ NodeOf(uiNodes, t.id) # 0
    THEN {nodeState[NodeOf(uiNodes, t.id)].nodeScale.lo,
          nodeState[NodeOf(uiNodes, t.id)].nodeScale.hi}
    ELSE {INITIAL_SCALE}

\* The pointer moves to the offset (dx, dy)
TouchMove(dx, dy, canvasWins) ==
    /\ touch.phase = "down"
    /\ <<dx, dy>> # <<touch.offX, touch.offY>>
    /\ \E ns \in NodeScalesOf(touch) :
       LET tapNow == IF touch.tap = "began" /\ OutsideNode(dx, dy, scale, ns)
                     THEN "failed" ELSE touch.tap
           r == Recognize(touch, dx, dy, tapNow, canvasWins)
           i == NodeOf(uiNodes, touch.id)
           n1 == IF r.nodeStarts THEN PanOnStart(nodeState[i]) ELSE nodeState[i]
           n2 == PanOnUpdate(n1, scale, dx, dy)
           sx == IF r.canvasStarts THEN translateX ELSE savedTranslateX
           sy == IF r.canvasStarts THEN translateY ELSE savedTranslateY
       IN /\ touch' = [touch EXCEPT
                         !.offX = dx, !.offY = dy,
                         !.maxDistSq = Max(@, dx * dx + dy * dy),
                         !.tap = r.tap, !.nodePan = r.nodePan,
                         !.canvasPan = r.canvasPan,
                         !.dragStarted = @ \/ r.nodeStarts,
                         !.dragUpdated = @ \/ r.nodePan = "active"]
          /\ nodeState' = IF r.nodePan = "active"
                      THEN [nodeState EXCEPT ![i] = n2] ELSE nodeState
          /\ positions' = IF r.nodePan = "active"
                      THEN [positions EXCEPT ![i] = DragPosition(uiNodes[i], n2)]
                      ELSE positions
          /\ UNCHANGED <<early, uiQueue>>
          /\ IF r.canvasPan = "active"
             THEN /\ savedTranslateX' = sx
                  /\ savedTranslateY' = sy
                  /\ translateX' = sx + dx * PointUnit
                  /\ translateY' = sy + dy * PointUnit
                  /\ translateAnimX' = NoAnim
                  /\ translateAnimY' = NoAnim
             ELSE UNCHANGED panVars
    /\ lastOp' = "touchMove"
    /\ UNCHANGED orphans
    /\ UNCHANGED <<scale, savedScale, scaleAnim, pinch, taps, pinches>>
    /\ UNCHANGED <<jsQueue, callbacks>>

\* maxDuration(200) expires while the tap is still possible: the tap fails
\* and a node pan that was waiting for it activates
TapTimeout ==
    /\ touch.phase = "down"
    /\ touch.tap = "began"
    /\ LET i == NodeOf(uiNodes, touch.id)
           starts == touch.nodePan = "awaiting"
       IN /\ touch' = [touch EXCEPT
                         !.tap = "failed", !.timedOut = TRUE,
                         !.nodePan = IF starts THEN "active" ELSE @,
                         !.canvasPan = IF starts /\ @ = "began" THEN "cancelled" ELSE @,
                         !.dragStarted = @ \/ starts]
          /\ nodeState' = IF starts THEN [nodeState EXCEPT ![i] = PanOnStart(@)] ELSE nodeState
    /\ lastOp' = "tapTimeout"
    /\ UNCHANGED <<orphans, positions, early, uiQueue>>
    /\ UNCHANGED <<scale, savedScale, scaleAnim, pinch, taps, pinches>>
    /\ UNCHANGED <<panVars, jsQueue, callbacks>>

\* A variant in which every node reports the first person
PressedPersonFirst(pn, id) == Rendered(pn)[1]

\* onPress={() => onPersonPress(person)} of the node rendered for the id
PressedPerson(pn, id) == Rendered(pn)[NodeOf(pn, id)]

\* The pointer lifts; (vx, vy) is the release velocity an active pan reports.
\* A tap that is still possible ends successfully: tapGesture.onEnd calls
\* runOnJS(onPress)() with the onPress of the node, () => onPersonPress(person)
Lift(vx, vy) ==
    /\ touch.phase = "down"
    /\ (touch.nodePan # "active" /\ touch.canvasPan # "active") => (vx = 0 /\ vy = 0)
    /\ LET tapEnds == touch.tap = "began"
           i == NodeOf(uiNodes, touch.id)
           stop(s) == IF s = "active" THEN "ended"
                      ELSE IF s \in {"began", "awaiting"}
                           THEN (IF tapEnds THEN "cancelled" ELSE "failed")
                      ELSE s
       IN /\ touch' = [touch EXCEPT
                         !.phase = "lifted", !.velocityX = vx, !.velocityY = vy,
                         !.tap = IF tapEnds THEN "ended" ELSE @,
                         !.nodePan = stop(@),
                         !.canvasPan = stop(@),
                         !.calls = IF tapEnds THEN @ + 1 ELSE @]
          /\ jsQueue' = IF tapEnds
                        THEN Append(jsQueue, PressedPerson(uiNodes, touch.id))
                        ELSE jsQueue
          /\ nodeState' = IF touch.nodePan = "active"
                      THEN [nodeState EXCEPT ![i] = PanOnEnd(@, scale, vx, vy)]
                      ELSE IF tapEnds
                      THEN [nodeState EXCEPT ![i] = TapFeedback(@)]
                      ELSE nodeState
          /\ IF touch.canvasPan = "active"
             THEN /\ translateAnimX' = withDecay(vx)
                  /\ translateAnimY' = withDecay(vy)
             ELSE UNCHANGED <<translateAnimX, translateAnimY>>
    /\ lastOp' = "lift"
    /\ UNCHANGED <<orphans, positions, early, uiQueue>>
    /\ UNCHANGED <<scale, savedScale, scaleAnim, pinch, taps, pinches>>
    /\ UNCHANGED <<translateX, translateY, savedTranslateX, savedTranslateY, callbacks>>

\* The JS thread runs a scheduled onPress: onPersonPress(person)
RunOnJS ==
    /\ jsQueue # <<>>
    /\ callbacks' = Append(callbacks, Head(jsQueue))
    /\ jsQueue' = Tail(jsQueue)
    /\ lastOp' = "onPersonPress"
    /\ UNCHANGED <<scale, savedScale, scaleAnim, pinch, taps, pinches>>
    /\ UNCHANGED <<panVars, nodeState, orphans, positions, early, uiQueue, touch>>

---------------------------------------------------------------------------
(* Viewport handlers                                                       *)

\* meNode of the first layout; meX, meY = useSharedValue(meNode.x / .y)
InitAnchor ==
    /\ meNode = layoutMeNode(people)
    /\ mePos = PosOf(meNode)

InitViewport ==
    /\ scale = INITIAL_SCALE
    /\ savedScale = INITIAL_SCALE
    /\ scaleAnim = NoAnim
    /\ pinch = "idle"
    /\ taps = 0
    /\ pinches = 0
    /\ lastOp = "mount"

\* pinchGesture.onStart
\* A variant that takes the pan's snapshot too
PinchStartSavesPan ==
    /\ pinch = "idle"
    /\ pinches < MaxPinches
    /\ pinch' = "active"
    /\ pinches' = pinches + 1
    /\ savedScale' = scale
    /\ savedTranslateX' = translateX
    /\ savedTranslateY' = translateY
    /\ lastOp' = "pinchStart"
    /\ UNCHANGED <<scale, scaleAnim, taps, nodeState, orphans, positions, early, uiQueue, touchVars>>
    /\ UNCHANGED <<translateX, translateY, translateAnimX, translateAnimY>>

PinchStart ==
    /\ pinch = "idle"
    /\ pinches < MaxPinches
    /\ pinch' = "active"
    /\ pinches' = pinches + 1
    /\ savedScale' = scale
    /\ lastOp' = "pinchStart"
    /\ UNCHANGED <<scale, scaleAnim, taps, panVars, nodeState, orphans, positions, early, uiQueue, touchVars>>

\* pinchGesture.onUpdate: the assignment replaces a running animation
PinchUpdate(factor) ==
    /\ pinch = "active"
    /\ scale' = clamp(Div(savedScale * factor, Unit), MIN_SCALE, MAX_SCALE)
    /\ scaleAnim' = NoAnim
    /\ lastOp' = "pinchUpdate"
    /\ UNCHANGED <<savedScale, pinch, taps, pinches, panVars, nodeState, orphans, positions, early, uiQueue,
                    touchVars>>

\* the fingers lift: the pinch has no onEnd handler
PinchEnd ==
    /\ pinch = "active"
    /\ pinch' = "idle"
    /\ lastOp' = "pinchEnd"
    /\ UNCHANGED <<scale, savedScale, scaleAnim, taps, pinches, panVars, nodeState,
                    orphans, positions, early, uiQueue, touchVars>>

\* A variant that steps from the target of the transition in flight
handleZoomInFromTarget ==
    /\ taps < MaxTaps
    /\ taps' = taps + 1
    /\ uiQueue' = Append(uiQueue,
                         Job("zoomIn",
                             clamp(Div((IF scaleAnim.kind = "spring"
                                        THEN scaleAnim.target ELSE scale) * ZoomStepNum,
                                       ZoomStepDen),
                                   MIN_SCALE, MAX_SCALE),
                             <<>>))
    /\ lastOp' = "handleZoomIn"
    /\ UNCHANGED <<scale, savedScale, scaleAnim, pinch, pinches, panVars, nodeState,
                    orphans, positions, early, touchVars>>

\* handleZoomIn, the onPress of a Pressable: scale.value is read here, the
\* assignment scale.value = withSpring(clamp(scale.value * 1.4, ...)) is
\* scheduled
handleZoomIn ==
    /\ taps < MaxTaps
    /\ taps' = taps + 1
    /\ uiQueue' = Append(uiQueue,
                         Job("zoomIn",
                             clamp(Div(scale * ZoomStepNum, ZoomStepDen),
                                   MIN_SCALE, MAX_SCALE),
                             <<>>))
    /\ lastOp' = "handleZoomIn"
    /\ UNCHANGED <<scale, savedScale, scaleAnim, pinch, pinches, panVars, nodeState,
                    orphans, positions, early, touchVars>>

\* handleZoomOut: as handleZoomIn, with scale.value / 1.4
handleZoomOut ==
    /\ taps < MaxTaps
    /\ taps' = taps + 1
    /\ uiQueue' = Append(uiQueue,
                         Job("zoomOut",
                             clamp(Div(scale * ZoomStepDen, ZoomStepNum),
                                   MIN_SCALE, MAX_SCALE),
                             <<>>))
    /\ lastOp' = "handleZoomOut"
    /\ UNCHANGED <<scale, savedScale, scaleAnim, pinch, pinches, panVars, nodeState,
                    orphans, positions, early, touchVars>>

\* handleReset: its three assignments are scheduled
handleReset ==
    /\ taps < MaxTaps
    /\ taps' = taps + 1
    /\ uiQueue' = Append(uiQueue, Job("reset", INITIAL_SCALE, <<>>))
    /\ lastOp' = "handleReset"
    /\ UNCHANGED <<scale, savedScale, scaleAnim, pinch, pinches, panVars, nodeState,
                    orphans, positions, early, touchVars>>

\* The UI thread carries out the assignment of a zoom press:
\* scale.value = withSpring(target)
RunZoom ==
    /\ uiQueue # <<>>
    /\ Head(uiQueue).op \in {"zoomIn", "zoomOut"}
    /\ scaleAnim' = withSpring(scale, Head(uiQueue).target, scaleAnim)
    /\ uiQueue' = Tail(uiQueue)
    /\ lastOp' = Head(uiQueue).op
    /\ UNCHANGED <<scale, savedScale, pinch, taps, pinches, panVars, nodeState,
                    orphans, positions, early, touchVars>>

\* A variant that leaves translateY alone
RunResetNoTranslateY ==
    /\ uiQueue # <<>>
    /\ Head(uiQueue).op = "reset"
    /\ scaleAnim' = withSpring(scale, Head(uiQueue).target, scaleAnim)
    /\ translateAnimX' = withSpring(translateX, 0, translateAnimX)
    /\ uiQueue' = Tail(uiQueue)
    /\ lastOp' = "reset"
    /\ UNCHANGED <<scale, savedScale, pinch, taps, pinches, nodeState, orphans,
                    positions, early, touchVars>>
    /\ UNCHANGED <<translateX, translateY, savedTranslateX, savedTranslateY,
                    translateAnimY>>

\* The UI thread carries out the assignments of a reset press:
\* scale.value = withSpring(INITIAL_SCALE), translateX.value = withSpring(0),
\* translateY.value = withSpring(0)
RunReset ==
    /\ uiQueue # <<>>
    /\ Head(uiQueue).op = "reset"
    /\ scaleAnim' = withSpring(scale, Head(uiQueue).target, scaleAnim)
    /\ translateAnimX' = withSpring(translateX, 0, translateAnimX)
    /\ translateAnimY' = withSpring(translateY, 0, translateAnimY)
    /\ uiQueue' = Tail(uiQueue)
    /\ lastOp' = "reset"
    /\ UNCHANGED <<scale, savedScale, pinch, taps, pinches, nodeState, orphans,
                    positions, early, touchVars>>
    /\ UNCHANGED <<translateX, translateY, savedTranslateX, savedTranslateY>>

\* One display frame: every running animation advances by one step
Frame ==
    /\ \/ scaleAnim.kind # "none"
       \/ translateAnimX.kind # "none"
       \/ translateAnimY.kind # "none"
       \/ \E i \in 1..Len(nodeState) : NodeAnimating(nodeState[i])
       \/ \E o \in orphans : NodeAnimating(o)
    /\ LET fs == CanvasFrame(scale, scaleAnim, Unit)
           fx == CanvasFrame(translateX, translateAnimX, PointUnit)
           fy == CanvasFrame(translateY, translateAnimY, PointUnit)
       IN /\ scale' = fs.x /\ scaleAnim' = fs.anim
          /\ translateX' = fx.x /\ translateAnimX' = fx.anim
          /\ translateY' = fy.x /\ translateAnimY' = fy.anim
    /\ nodeState' = [i \in 1..Len(nodeState) |-> NodeFrame(nodeState[i])]
    /\ orphans' = {n \in {NodeFrame(o) : o \in orphans} : Pending(n)}
    /\ positions' = FramePositions(uiNodes, nodeState, positions)
    /\ UNCHANGED <<early, uiQueue>>
    /\ lastOp' = "frame"
    /\ UNCHANGED <<savedScale, pinch, taps, pinches>>
    /\ UNCHANGED <<savedTranslateX, savedTranslateY, touchVars>>

---------------------------------------------------------------------------
(* Specification of the viewport scale: the canvas shows the sample people *)
(* and the user pinches and presses the zoom and reset buttons             *)

NextScale ==
    \/ PinchStart /\ UNCHANGED graphVars
    \/ \E f \in PinchFactors : PinchUpdate(f) /\ UNCHANGED graphVars
    \/ PinchEnd /\ UNCHANGED graphVars
    \/ handleZoomIn /\ UNCHANGED graphVars
    \/ handleZoomOut /\ UNCHANGED graphVars
    \/ handleReset /\ UNCHANGED graphVars
    \/ RunZoom /\ UNCHANGED graphVars
    \/ RunReset /\ UNCHANGED graphVars
    \/ Frame /\ UNCHANGED graphVars

InitScale ==
    /\ allPeople = SamplePeople
    /\ filterTags = {}
    /\ people = allPeople
    /\ window = StandardScreen
    /\ peopleNodes = calculateTreeLayout(people, centerX, centerY)
    /\ uiNodes = peopleNodes
    /\ react = ReactMounted(peopleNodes, 1)
    /\ connectionData = BuildConnectionData(peopleNodes)
    /\ InitAnchor
    /\ InitViewport
    /\ InitTouch

SpecScale == InitScale /\ [][NextScale]_vars

---------------------------------------------------------------------------
(* Specification of one touch sequence: the pointer goes down on a node,   *)
(* on the anchor or on the empty canvas, moves, lifts, and the animations  *)
(* it started run to their end                                             *)

\* People lists the touch sequences are exercised on
TouchPeople == {Slice(SamplePeople, 0, 2)}

TouchTargets ==
    {<<"anchor", <<>>>>, <<"canvas", <<>>>>}
        \cup {<<"node", uiNodes[i].id>> : i \in 1..Len(uiNodes)}

InitTouchSpec ==
    /\ allPeople \in TouchPeople
    /\ filterTags = {}
    /\ people = allPeople
    /\ window = StandardScreen
    /\ peopleNodes = calculateTreeLayout(people, centerX, centerY)
    /\ uiNodes = peopleNodes
    /\ react = ReactMounted(peopleNodes, 1)
    /\ connectionData = BuildConnectionData(peopleNodes)
    /\ InitAnchor
    /\ \E p \in TouchScales : scale = p[1] /\ savedScale = p[2]
    /\ scaleAnim = NoAnim
    /\ pinch = "idle"
    /\ taps = 0
    /\ pinches = 0
    /\ lastOp = "mount"
    /\ InitTouch

NextTouch ==
    \/ \E i \in 1..Len(react.timers) : FloatTimer(i)
    \/ RunFloat /\ UNCHANGED graphVars
    \/ \E t \in TouchTargets : TouchDown(t[1], t[2]) /\ UNCHANGED graphVars
    \/ \E o \in Offsets, w \in BOOLEAN : TouchMove(o[1], o[2], w) /\ UNCHANGED graphVars
    \/ TapTimeout /\ UNCHANGED graphVars
    \/ \E v \in Velocities : Lift(v[1], v[2]) /\ UNCHANGED graphVars
    \/ RunOnJS /\ UNCHANGED graphVars
    \/ Frame /\ UNCHANGED graphVars

SpecTouch == InitTouchSpec /\ [][NextTouch]_vars

---------------------------------------------------------------------------
(* Specification of a node drag and what follows its release: the pointer  *)
(* goes down on a node at scale 1; the display keeps delivering frames     *)
(* while an animation runs                                                 *)

\* Pointer offsets of the drag: past the node pan's threshold only, and past
\* the canvas pan's threshold too
DragOffsets == {<<6, 0>>, <<0, -12>>}

InitDrag == InitTouchSpec /\ scale = INITIAL_SCALE

\* The pointer offset of a drag released with momentum: past the node pan's
\* threshold only
MomentumOffsets == {<<6, 0>>}

NextDrag ==
    \/ \E i \in 1..Len(react.timers) : FloatTimer(i)
    \/ RunFloat /\ UNCHANGED graphVars
    \/ \E i \in 1..Len(uiNodes) :
           TouchDown("node", uiNodes[i].id) /\ UNCHANGED graphVars
    \/ \E o \in MomentumOffsets, w \in BOOLEAN :
           TouchMove(o[1], o[2], w) /\ UNCHANGED graphVars
    \/ TapTimeout /\ UNCHANGED graphVars
    \/ \E v \in Velocities : Lift(v[1], v[2]) /\ UNCHANGED graphVars
    \/ RunOnJS /\ UNCHANGED graphVars
    \/ Frame /\ UNCHANGED graphVars

SpecDrag == InitDrag /\ [][NextDrag]_vars /\ WF_vars(Frame /\ UNCHANGED graphVars)

---------------------------------------------------------------------------
(* Specification of a touch on a node that is still moving: the first node *)
(* was dragged and has just been released with momentum, every node        *)
(* oscillates, and a new touch sequence arrives at any frame of the decay  *)
(* and of the spring back; the specification ends when that touch lifts    *)

\* The shared values of a node right after a drag by (6, 0) points at scale 1
\* was released with the velocity v
ReleasedNode(v) ==
    PanOnEnd(PanOnUpdate(PanOnStart(NodeInit), INITIAL_SCALE, 6, 0),
             INITIAL_SCALE, v[1], v[2])

InitRegrab ==
    /\ allPeople \in TouchPeople
    /\ filterTags = {}
    /\ people = allPeople
    /\ window = StandardScreen
    /\ peopleNodes = calculateTreeLayout(people, centerX, centerY)
    /\ uiNodes = peopleNodes
    /\ react = ReactMounted(peopleNodes, 0)
    /\ connectionData = BuildConnectionData(peopleNodes)
    /\ InitAnchor
    /\ scale = INITIAL_SCALE /\ savedScale = INITIAL_SCALE
    /\ scaleAnim = NoAnim
    /\ pinch = "idle"
    /\ taps = 0
    /\ pinches = 0
    /\ lastOp = "lift"
    /\ translateX = 0 /\ translateY = 0
    /\ savedTranslateX = 0 /\ savedTranslateY = 0
    /\ translateAnimX = NoAnim /\ translateAnimY = NoAnim
    /\ \E v \in Velocities \ {<<0, 0>>} :
          nodeState = [i \in 1..Len(Rendered(peopleNodes)) |->
                          [(IF i = 1 THEN ReleasedNode(v) ELSE NodeInit)
                              EXCEPT !.floating = TRUE]]
    /\ orphans = {}
    /\ positions = MountPositions(peopleNodes, nodeState)
    /\ early = EarlyUnmounted
    /\ uiQueue = <<>>
    /\ touch = NoTouch
    /\ jsQueue = <<>>
    /\ callbacks = <<>>

NextRegrab ==
    \/ \E i \in 1..Len(uiNodes) :
           TouchDown("node", uiNodes[i].id) /\ UNCHANGED graphVars
    \/ \E o \in DragOffsets, w \in BOOLEAN : TouchMove(o[1], o[2], w) /\ UNCHANGED graphVars
    \/ TapTimeout /\ UNCHANGED graphVars
    \/ \E v \in Velocities : Lift(v[1], v[2]) /\ UNCHANGED graphVars
    \/ RunOnJS /\ UNCHANGED graphVars
    \/ touch.phase # "lifted" /\ Frame /\ UNCHANGED graphVars

SpecRegrab == InitRegrab /\ [][NextRegrab]_vars

---------------------------------------------------------------------------
(* Specification of the canvas gestures: one pointer sequence on the empty *)
(* canvas drives the pan while pinches start, update and end at any moment *)
(* (Gesture.Simultaneous), and the momentum of the release runs out        *)

InitCanvas == InitDrag

NextCanvas ==
    \/ TouchDown("canvas", <<>>) /\ UNCHANGED graphVars
    \/ \E o \in DragOffsets, w \in BOOLEAN : TouchMove(o[1], o[2], w) /\ UNCHANGED graphVars
    \/ \E v \in Velocities : Lift(v[1], v[2]) /\ UNCHANGED graphVars
    \/ PinchStart /\ UNCHANGED graphVars
    \/ \E f \in PinchFactors : PinchUpdate(f) /\ UNCHANGED graphVars
    \/ PinchEnd /\ UNCHANGED graphVars
    \/ Frame /\ UNCHANGED graphVars

SpecCanvas == InitCanvas /\ [][NextCanvas]_vars

---------------------------------------------------------------------------
(* Specification of the reset button: the canvas is at scale 1, zoomed by  *)
(* a pinch, or in the spring of a zoom-in press, and it is untouched or    *)
(* was just panned and released, with or without momentum; the user        *)
(* presses reset at any moment and the display keeps delivering frames     *)
(* while an animation runs                                                 *)

\* (scale, scaleAnim) at the start: at rest at 1, at rest after a pinch to
\* 2.2, and right after handleZoomIn at 1
ResetScales ==
    {<<INITIAL_SCALE, NoAnim>>,
     <<2200, NoAnim>>,
     <<INITIAL_SCALE,
       withSpring(INITIAL_SCALE,
                  clamp(Div(INITIAL_SCALE * ZoomStepNum, ZoomStepDen), MIN_SCALE, MAX_SCALE),
                  NoAnim)>>}

\* Pointer offsets of the canvas pan, past its threshold
PanOffsets == {<<0, -12>>}

\* Release velocities of the canvas pan: at rest, 5 points per second
\* downwards, and a fling up and to the left
PanVelocities == {<<0, 0>>, <<0, 50000>>, <<-600000, 1500000>>}

\* The canvas right after a pan from (0, 0) by offset o was released with
\* velocity v: onStart saved (0, 0), onUpdate moved the translation by the
\* offset, onEnd started the decays
PanReleased(o, v) ==
    /\ savedTranslateX = 0 /\ savedTranslateY = 0
    /\ translateX = 0 + o[1] * PointUnit
    /\ translateY = 0 + o[2] * PointUnit
    /\ translateAnimX = withDecay(v[1])
    /\ translateAnimY = withDecay(v[2])
    /\ touch = [NoTouch EXCEPT
                  !.phase = "lifted", !.target = "canvas",
                  !.offX = o[1], !.offY = o[2],
                  !.maxDistSq = o[1] * o[1] + o[2] * o[2],
                  !.canvasPan = "ended",
                  !.velocityX = v[1], !.velocityY = v[2]]
    /\ nodeState = MountNodes(peopleNodes)
    /\ orphans = {}
    /\ positions = MountPositions(peopleNodes, nodeState)
    /\ early = EarlyUnmounted
    /\ uiQueue = <<>>
    /\ jsQueue = <<>>
    /\ callbacks = <<>>

InitReset ==
    /\ allPeople \in TouchPeople
    /\ filterTags = {}
    /\ people = allPeople
    /\ window = StandardScreen
    /\ peopleNodes = calculateTreeLayout(people, centerX, centerY)
    /\ uiNodes = peopleNodes
    /\ react = ReactMounted(peopleNodes, 1)
    /\ connectionData = BuildConnectionData(peopleNodes)
    /\ InitAnchor
    /\ \E p \in ResetScales : scale = p[1] /\ scaleAnim = p[2]
    /\ savedScale = INITIAL_SCALE
    /\ pinch = "idle"
    /\ taps = 0
    /\ pinches = 0
    /\ lastOp = "mount"
    /\ \/ InitTouch
       \/ \E o \in PanOffsets, v \in PanVelocities : PanReleased(o, v)

NextReset ==
    \/ handleReset /\ UNCHANGED graphVars
    \/ RunReset /\ UNCHANGED graphVars
    \/ Frame /\ UNCHANGED graphVars

SpecReset ==
    /\ InitReset /\ [][NextReset]_vars
    /\ WF_vars(Frame /\ UNCHANGED graphVars)
    /\ WF_vars(RunReset /\ UNCHANGED graphVars)

---------------------------------------------------------------------------
(* Specification of a drag under a changing scale: a node was released     *)
(* with momentum, the scale is at rest at 1 or in the spring of a zoom-in  *)
(* press, and the node is touched again and dragged while frames pass      *)

\* (scale, scaleAnim) at the start: at rest at 1, and right after handleZoomIn
ZoomDragScales == {p \in ResetScales : p[1] = INITIAL_SCALE}

InitZoomDrag ==
    /\ allPeople \in TouchPeople
    /\ filterTags = {}
    /\ people = allPeople
    /\ window = StandardScreen
    /\ peopleNodes = calculateTreeLayout(people, centerX, centerY)
    /\ uiNodes = peopleNodes
    /\ react = ReactMounted(peopleNodes, 0)
    /\ connectionData = BuildConnectionData(peopleNodes)
    /\ InitAnchor
    /\ \E p \in ZoomDragScales : scale = p[1] /\ scaleAnim = p[2]
    /\ savedScale = INITIAL_SCALE
    /\ pinch = "idle"
    /\ taps = 0
    /\ pinches = 0
    /\ lastOp = "lift"
    /\ translateX = 0 /\ translateY = 0
    /\ savedTranslateX = 0 /\ savedTranslateY = 0
    /\ translateAnimX = NoAnim /\ translateAnimY = NoAnim
    /\ \E v \in Velocities \ {<<0, 0>>} :
          nodeState = [i \in 1..Len(Rendered(peopleNodes)) |->
                          [(IF i = 1 THEN ReleasedNode(v) ELSE NodeInit)
                              EXCEPT !.floating = TRUE]]
    /\ orphans = {}
    /\ positions = MountPositions(peopleNodes, nodeState)
    /\ early = EarlyUnmounted
    /\ uiQueue = <<>>
    /\ touch = NoTouch
    /\ jsQueue = <<>>
    /\ callbacks = <<>>

NextZoomDrag ==
    \/ \E i \in 1..Len(uiNodes) :
          TouchDown("node", uiNodes[i].id) /\ UNCHANGED graphVars
    \/ \E o \in DragOffsets, w \in BOOLEAN : TouchMove(o[1], o[2], w) /\ UNCHANGED graphVars
    \/ TapTimeout /\ UNCHANGED graphVars
    \/ Lift(0, 0) /\ UNCHANGED graphVars
    \/ touch.phase = "down" /\ Frame /\ UNCHANGED graphVars

SpecZoomDrag == InitZoomDrag /\ [][NextZoomDrag]_vars

---------------------------------------------------------------------------
(* Specification of a zoom button tap: the scale rests where the pinch     *)
(* factors can leave it, or a zoom or reset spring is in flight from such  *)
(* a scale; frames pass and a zoom button is pressed at any moment         *)

\* The scales a pinch leaves the canvas at: 1, 2.2 and the two bounds
ZoomRestScales == {INITIAL_SCALE, 2200, MIN_SCALE, MAX_SCALE}

\* (scale, scaleAnim) at the start: at rest, and right after handleZoomIn,
\* handleZoomOut or handleReset at a rest scale
ZoomScales ==
    {<<x, NoAnim>> : x \in ZoomRestScales}
    \cup {<<x, withSpring(x, clamp(Div(x * ZoomStepNum, ZoomStepDen), MIN_SCALE, MAX_SCALE),
                          NoAnim)>> : x \in ZoomRestScales}
    \cup {<<x, withSpring(x, clamp(Div(x * ZoomStepDen, ZoomStepNum), MIN_SCALE, MAX_SCALE),
                          NoAnim)>> : x \in ZoomRestScales}
    \cup {<<x, withSpring(x, INITIAL_SCALE, NoAnim)>> : x \in ZoomRestScales}

InitZoom ==
    /\ allPeople \in TouchPeople
    /\ filterTags = {}
    /\ people = allPeople
    /\ window = StandardScreen
    /\ peopleNodes = calculateTreeLayout(people, centerX, centerY)
    /\ uiNodes = peopleNodes
    /\ react = ReactMounted(peopleNodes, 1)
    /\ connectionData = BuildConnectionData(peopleNodes)
    /\ InitAnchor
    /\ \E p \in ZoomScales : scale = p[1] /\ scaleAnim = p[2]
    /\ savedScale = INITIAL_SCALE
    /\ pinch = "idle"
    /\ taps = MaxTaps - 1
    /\ pinches = 0
    /\ lastOp = "mount"
    /\ InitTouch

NextZoom ==
    \/ handleZoomIn /\ UNCHANGED graphVars
    \/ handleZoomOut /\ UNCHANGED graphVars
    \/ RunZoom /\ UNCHANGED graphVars
    \/ Frame /\ UNCHANGED graphVars

SpecZoom == InitZoom /\ [][NextZoom]_vars

---------------------------------------------------------------------------
(* Specification of a canvas pan: the canvas is fresh or an earlier pan    *)
(* has been released and its momentum may still run; one pointer goes      *)
(* down on the background, moves, lifts with some velocity, and frames     *)
(* pass until nothing moves any more                                       *)

\* Release velocities of a pan: none, and one on both axes
PanLiftVelocities == {<<0, 0>>, <<-30000, 20000>>}

\* Release velocity of the earlier pan: its momentum lasts a few frames
PanEarlierVelocity == <<0, 12000>>

\* The translation an earlier pan by o released with velocity v has left,
\* no pointer on the screen
PanEarlier(o, v) ==
    /\ savedTranslateX = 0 /\ savedTranslateY = 0
    /\ translateX = 0 + o[1] * PointUnit
    /\ translateY = 0 + o[2] * PointUnit
    /\ translateAnimX = withDecay(v[1])
    /\ translateAnimY = withDecay(v[2])
    /\ touch = NoTouch
    /\ nodeState = MountNodes(peopleNodes)
    /\ orphans = {}
    /\ positions = MountPositions(peopleNodes, nodeState)
    /\ early = EarlyUnmounted
    /\ uiQueue = <<>>
    /\ jsQueue = <<>>
    /\ callbacks = <<>>

InitPan ==
    /\ allPeople \in TouchPeople
    /\ filterTags = {}
    /\ people = allPeople
    /\ window = StandardScreen
    /\ peopleNodes = calculateTreeLayout(people, centerX, centerY)
    /\ uiNodes = peopleNodes
    /\ react = ReactMounted(peopleNodes, 1)
    /\ connectionData = BuildConnectionData(peopleNodes)
    /\ InitAnchor
    /\ InitViewport
    /\ \/ InitTouch
       \/ \E o \in PanOffsets : PanEarlier(o, PanEarlierVelocity)

NextPan ==
    \/ TouchDown("canvas", <<>>) /\ UNCHANGED graphVars
    \/ \E o \in DragOffsets, w \in BOOLEAN : TouchMove(o[1], o[2], w) /\ UNCHANGED graphVars
    \/ \E v \in PanLiftVelocities : Lift(v[1], v[2]) /\ UNCHANGED graphVars
    \/ Frame /\ UNCHANGED graphVars

SpecPan == InitPan /\ [][NextPan]_vars /\ WF_vars(Frame /\ UNCHANGED graphVars)

---------------------------------------------------------------------------
(* Graph specification: the screen mounts the canvas with its data and     *)
(* the user changes the tag filter                                         *)

InitGraph ==
    /\ \/ /\ \E ids \in DistinctIdLists : allPeople \in SmallPeopleOf(ids)
          /\ window = StandardScreen
       \/ allPeople \in BigLists /\ window \in Screens
       \/ allPeople = SamplePeople /\ window \in Screens
    /\ filterTags = {}
    /\ people = allPeople
    /\ peopleNodes = calculateTreeLayout(people, centerX, centerY)
    /\ uiNodes = peopleNodes
    /\ react = ReactMounted(peopleNodes, 1)
    /\ connectionData = BuildConnectionData(peopleNodes)
    /\ InitAnchor
    /\ InitViewport
    /\ InitTouch

\* The value the next render will take for filterTags
Requested == IF react.queued # <<>> THEN react.queued[1] ELSE filterTags

\* setFilterTags(next) in a handler of the filter sheet or of a pill, whenever
\* a press is handled: React queues the state update, and an update queued
\* before the next render replaces the one before it
SetFilterTags(tags) ==
    /\ tags # Requested
    /\ react.queued = <<>> => CommitsInFlight < MaxCommits
    /\ react' = [react EXCEPT !.queued = <<tags>>]
    /\ UNCHANGED <<allPeople, filterTags, people, peopleNodes, connectionData,
                    meNode, mePos, window, uiNodes>>
    /\ UNCHANGED <<scaleVars, panVars, nodeState, orphans, positions, early,
                    uiQueue, touchVars>>

\* React renders the screen and the canvas with the queued state: the memos
\* filteredPeople, calculateTreeLayout and connectionData are recomputed. The
\* effects of a render run before the next render starts. The UI thread keeps
\* the views and worklets of the render it took over last
Render ==
    /\ react.queued # <<>>
    /\ ~react.effectsDue
    /\ LET tags == react.queued[1]
           newNodes == calculateTreeLayout(filteredPeople(allPeople, tags),
                                           centerX, centerY)
       IN /\ filterTags' = tags
          /\ people' = filteredPeople(allPeople, tags)
          /\ peopleNodes' = newNodes
          /\ connectionData' = BuildConnectionData(newNodes)
          /\ meNode' = layoutMeNode(filteredPeople(allPeople, tags))
    /\ react' = [react EXCEPT !.queued = <<>>, !.effectsDue = TRUE]
    /\ lastOp' = "render"
    /\ UNCHANGED <<allPeople, mePos, window, uiNodes>>
    /\ UNCHANGED <<scale, savedScale, scaleAnim, pinch, taps, pinches>>
    /\ UNCHANGED <<panVars, nodeState, orphans, positions, early,
                    uiQueue, touchVars>>

\* After the commit the effects run on the JS thread, in one task: the
\* cleanups clear the timers of the nodes that are gone or have another index,
\* the effects of the new and the moved nodes arm theirs, and what else they
\* do (cancelAnimation, the new shared values, styles and gesture handlers) is
\* handed to the UI thread
RunEffects ==
    /\ react.effectsDue
    /\ react' = [react EXCEPT
                   !.effectsDue = FALSE,
                   !.mounted = peopleNodes,
                   !.timers = EffectTimers(react.mounted, react.timers, peopleNodes)]
    /\ uiQueue' = Append(uiQueue, Job("commit", 0, peopleNodes))
    /\ UNCHANGED <<allPeople, filterTags, people, peopleNodes, connectionData,
                    meNode, mePos, window, uiNodes>>
    /\ UNCHANGED <<scaleVars, panVars, nodeState, orphans, positions, early,
                    touchVars>>

\* The UI thread takes over a commit: the node views are re-keyed, the
\* animations of unmounted and moved nodes are cancelled, the styles and
\* gesture handlers with a new closure replace the old ones, and a touch whose
\* node is gone loses that node's recognizers
RunCommit ==
    /\ uiQueue # <<>>
    /\ Head(uiQueue).op = "commit"
    /\ LET newNodes == Head(uiQueue).nodes
       IN /\ uiNodes' = newNodes
          /\ nodeState' = Relayout(uiNodes, nodeState, newNodes)
          /\ orphans' = orphans \cup
                         {n \in {Unmount(nodeState[j]) :
                                    j \in Unmounted(uiNodes, newNodes)} : Pending(n)}
          /\ positions' = RelayoutPositions(uiNodes, positions, newNodes,
                                            Relayout(uiNodes, nodeState, newNodes))
          /\ touch' = IF touch.target = "node" /\ NodeOf(newNodes, touch.id) = 0
                      THEN [touch EXCEPT !.tap = "cancelled", !.nodePan = "cancelled"]
                      ELSE touch
    /\ uiQueue' = Tail(uiQueue)
    /\ lastOp' = "commit"
    /\ UNCHANGED <<allPeople, filterTags, people, peopleNodes, connectionData,
                    meNode, mePos, window, react>>
    /\ UNCHANGED <<scale, savedScale, scaleAnim, pinch, taps, pinches>>
    /\ UNCHANGED <<panVars, early, jsQueue, callbacks>>

\* A change of the tag filter, from the press to the UI thread
FilterChange ==
    \/ \E tags \in SUBSET FilterTagChoices : SetFilterTags(tags)
    \/ Render
    \/ RunEffects
    \/ RunCommit

\* The tags the filter is exercised with on the lists of this specification
GraphTagChoices == {"Community"}

NextGraph ==
    \/ \E tags \in SUBSET GraphTagChoices : SetFilterTags(tags)
    \/ Render
    \/ RunEffects
    \/ RunCommit

SpecGraph == InitGraph /\ [][NextGraph]_vars

---------------------------------------------------------------------------
(* Specification of the graph over ids that contain the separator of the   *)
(* dedup key: Person.id is any string                                      *)

\* Ids "1", "1-2", "2-3", "3"
HyphenIds ==
    << Str(1), Str(1) \o <<Hyphen>> \o Str(2), Str(2) \o <<Hyphen>> \o Str(3), Str(3) >>

MaxKeyConns == 2

RECURSIVE ConnAssignmentsOver(_, _, _)
\* all ways to give k people connection arrays over the ids S with at most
\* `budget` entries in all
ConnAssignmentsOver(S, k, budget) ==
    IF k = 0 THEN {<<>>}
    ELSE UNION {{<<c>> \o rest : rest \in ConnAssignmentsOver(S, k - 1, budget - Len(c))} :
                    c \in SeqsUpTo(S, budget)}

HyphenPeople ==
    {[i \in 1..Len(HyphenIds) |-> Person(HyphenIds[i], cs[i], SynthTags(i))] :
        cs \in ConnAssignmentsOver({HyphenIds[i] : i \in 1..Len(HyphenIds)},
                                   Len(HyphenIds), MaxKeyConns)}

InitKeys ==
    /\ allPeople \in HyphenPeople
    /\ filterTags = {}
    /\ people = allPeople
    /\ window = StandardScreen
    /\ peopleNodes = calculateTreeLayout(people, centerX, centerY)
    /\ uiNodes = peopleNodes
    /\ react = ReactMounted(peopleNodes, 1)
    /\ connectionData = BuildConnectionData(peopleNodes)
    /\ InitAnchor
    /\ InitViewport
    /\ InitTouch

NextKeys == FilterChange

SpecKeys == InitKeys /\ [][NextKeys]_vars

---------------------------------------------------------------------------
(* Specification of the early static canvas: it mounts with a people list, *)
(* the list changes, and the user pans, pinches and taps the zoom buttons  *)

\* data/sampleData.ts: the x and y of the six sample people
EarlySample ==
    << EarlyPerson(<<200>>, <<150>>), EarlyPerson(<<350>>, <<200>>),
       EarlyPerson(<<300>>, <<350>>), EarlyPerson(<<150>>, <<300>>),
       EarlyPerson(<<100>>, <<200>>), EarlyPerson(<<250>>, <<100>>) >>

\* People lists: the sample, its first two, and people without a y
EarlyLists ==
    {EarlySample, Slice(EarlySample, 0, 2),
     <<EarlyPerson(<<>>, <<>>), EarlyPerson(<<120>>, <<>>)>>}

\* Dimensions.get("window"): width and height in points
EarlyScreens == {<<390, 844>>}

InitEarly ==
    /\ allPeople = SamplePeople
    /\ filterTags = {}
    /\ people = allPeople
    /\ window = StandardScreen
    /\ peopleNodes = calculateTreeLayout(people, centerX, centerY)
    /\ uiNodes = peopleNodes
    /\ react = ReactMounted(peopleNodes, 1)
    /\ connectionData = BuildConnectionData(peopleNodes)
    /\ InitAnchor
    /\ InitViewport
    /\ translateX = 0 /\ translateY = 0
    /\ savedTranslateX = 0 /\ savedTranslateY = 0
    /\ translateAnimX = NoAnim /\ translateAnimY = NoAnim
    /\ nodeState = MountNodes(peopleNodes)
    /\ orphans = {}
    /\ positions = MountPositions(peopleNodes, nodeState)
    /\ touch = NoTouch
    /\ jsQueue = <<>>
    /\ callbacks = <<>>
    /\ uiQueue = <<>>
    /\ \E ps \in EarlyLists, screen \in EarlyScreens : early = EarlyMount(ps, screen)

NextEarly ==
    \/ \E ps \in EarlyLists : EarlyRender(ps)
    \/ EarlyPanStart
    \/ \E o \in PanOffsets : EarlyPanUpdate(o[1], o[2])
    \/ EarlyPanEnd
    \/ EarlyPinchStart
    \/ \E f \in PinchFactors : EarlyPinchUpdate(f)
    \/ EarlyPinchEnd
    \/ EarlyZoomIn
    \/ EarlyZoomOut
    \/ EarlyRunOnUI
    \/ EarlyFrame

SpecEarly == InitEarly /\ [][NextEarly]_vars

---------------------------------------------------------------------------
(* Specification of a relayout among gestures: one touch sequence on two   *)
(* people, the frames of the animations it starts, and a change of the tag *)
(* filter at any moment, which relayouts the canvas and unmounts nodes     *)

\* The filter changes a relayout is exercised with: tags are added to the
\* filter, also while an earlier change is on its way to the views
RelayoutChanges(from) == {tags \in SUBSET FilterTagChoices : from \subseteq tags}

\* The pointer offset and the release velocity of the touch sequence
RelayoutOffsets == {<<0, -12>>}
RelayoutVelocities == {<<-12000, 30000>>}

InitRelayout ==
    /\ translateY = 0
    /\ InitDrag

NextRelayout ==
    \/ \E i \in 1..Len(react.timers) : FloatTimer(i)
    \/ RunFloat /\ UNCHANGED graphVars
    \/ \E t \in TouchTargets : TouchDown(t[1], t[2]) /\ UNCHANGED graphVars
    \/ \E o \in RelayoutOffsets, w \in BOOLEAN :
           TouchMove(o[1], o[2], w) /\ UNCHANGED graphVars
    \/ TapTimeout /\ UNCHANGED graphVars
    \/ \E v \in RelayoutVelocities : Lift(v[1], v[2]) /\ UNCHANGED graphVars
    \/ Frame /\ UNCHANGED graphVars
    \/ \E tags \in RelayoutChanges(Requested) : SetFilterTags(tags)
    \/ Render
    \/ RunEffects
    \/ RunCommit

SpecRelayout == InitRelayout /\ [][NextRelayout]_vars

---------------------------------------------------------------------------
(* Specification of a tap among changes of the tag filter: one touch that   *)
(* stays under the pan thresholds, on a node, the anchor or the canvas,     *)
(* while the filter is changed at any moment and the list is laid out again *)

\* The pointer offset of the tap: under both pan thresholds
SelectOffsets == {<<3, 0>>}

NextSelect ==
    \/ \E i \in 1..Len(react.timers) : FloatTimer(i)
    \/ RunFloat /\ UNCHANGED graphVars
    \/ \E t \in TouchTargets : TouchDown(t[1], t[2]) /\ UNCHANGED graphVars
    \/ \E o \in SelectOffsets, w \in BOOLEAN :
           TouchMove(o[1], o[2], w) /\ UNCHANGED graphVars
    \/ TapTimeout /\ UNCHANGED graphVars
    \/ Lift(0, 0) /\ UNCHANGED graphVars
    \/ RunOnJS /\ UNCHANGED graphVars
    \/ \E tags \in SUBSET FilterTagChoices : SetFilterTags(tags)
    \/ Render
    \/ RunEffects
    \/ RunCommit

SpecSelect == InitDrag /\ [][NextSelect]_vars

---------------------------------------------------------------------------
(* Properties of the graph model (SpecGraph)                               *)

AnchorIdx == {k \in 1..Len(connectionData) : ~connectionData[k].dashed}
PeerIdx == {k \in 1..Len(connectionData) : connectionData[k].dashed}

\* The unordered pair of node ids an edge joins
EdgePair(e) == {peopleNodes[e.fromIndex + 1].id, peopleNodes[e.toIndex + 1].id}

Lists(i, id) == \E c \in 1..Len(people[i].connections) : people[i].connections[c] = id

\* C3: for every people list, no two produced peer-to-peer edges join the
\* same unordered pair of node ids - whether both endpoints list each other
\* or one person lists the same neighbour more than once.
C3_NoDuplicatePeerEdges ==
    \A i, j \in PeerIdx :
        i # j => EdgePair(connectionData[i]) # EdgePair(connectionData[j])

\* C3 witness: two people list each other, one of them lists the other
\* twice, and the pair has its edge.
C3_Witness ==
    \E i, j \in 1..Len(people) :
        /\ i # j
        /\ Lists(i, people[j].id) /\ Lists(j, people[i].id)
        /\ Len(people[i].connections) >= 2
        /\ people[i].connections[1] = people[j].id
        /\ people[i].connections[2] = people[j].id
        /\ \E k \in PeerIdx :
              EdgePair(connectionData[k]) = {people[i].id, people[j].id}

\* Rank of person i in a stable sort by descending connection count: the
\* number of people placed before it.
RankOf(i) ==
    Cardinality({j \in 1..Len(people) :
        \/ Len(people[j].connections) > Len(people[i].connections)
        \/ (Len(people[j].connections) = Len(people[i].connections) /\ j < i)})

\* Four times the square of a position's distance from the canvas centre:
\* with the y of the centre, the point of the ring at -pi/6 is
\* r * cos(pi/6) away
CentreDistSq(n) == IF n.yAtCenter THEN 3 * n.r * n.r ELSE 4 * n.r * n.r

OnRing(n, radius) == CentreDistSq(n) = 4 * radius * radius

InRing(radius) == {i \in 1..Len(peopleNodes) : OnRing(peopleNodes[i], radius)}

\* C8: of N people the layout puts min(N, 6) in the first ring, the next
\* min(10, max(0, N - 6)) in the second and the rest in the third, in
\* sorted (descending connection count, stable) order; the six sample
\* people are all in ring 1.
C8_RingCapacity ==
    LET N == Len(people)
    IN /\ Len(peopleNodes) = N
       /\ Cardinality(InRing(firstRingRadius)) = Min(N, 6)
       /\ Cardinality(InRing(secondRingRadius)) = Min(10, Max(0, N - 6))
       /\ Cardinality(InRing(thirdRingRadius)) = Max(0, N - 16)
       /\ \A i \in 1..N :
            OnRing(peopleNodes[i], IF RankOf(i) < 6 THEN firstRingRadius
                                   ELSE IF RankOf(i) < 16 THEN secondRingRadius
                                   ELSE thirdRingRadius)
       /\ (people = SamplePeople => InRing(firstRingRadius) = 1..6)

\* C8 witness: a list long enough to fill the first two rings and reach the
\* third, with unequal connection counts so that the order matters.
C8_Witness ==
    /\ Len(people) > 16
    /\ InRing(thirdRingRadius) # {}
    /\ \E i, j \in 1..Len(people) :
          i < j /\ Len(people[i].connections) < Len(people[j].connections)

\* The ring slot of node i comes before the ring slot of node j: a closer
\* ring, or the same ring at an earlier angle index
SlotBefore(i, j) ==
    \/ CentreDistSq(peopleNodes[i]) < CentreDistSq(peopleNodes[j])
    \/ /\ CentreDistSq(peopleNodes[i]) = CentreDistSq(peopleNodes[j])
       /\ peopleNodes[i].num < peopleNodes[j].num

\* C23: a person with strictly more connections than another is in the same
\* ring or in a ring closer to the anchor, and of two people with equal
\* connection counts the one earlier in the input list has the earlier ring
\* slot.
C23_RankedByConnectionCount ==
    \A a, b \in 1..Len(people) :
        /\ Degree(people[a]) > Degree(people[b]) =>
              CentreDistSq(peopleNodes[a]) <= CentreDistSq(peopleNodes[b])
        /\ (Degree(people[a]) = Degree(people[b]) /\ a < b) => SlotBefore(a, b)

\* C23 witness: more than six people; a person late in the list has more
\* connections than an earlier one and sits in a closer ring, and two people
\* with equal counts share a ring.
C23_Witness ==
    /\ Len(people) > FirstRingCapacity
    /\ \E a, b \in 1..Len(people) :
          /\ a < b
          /\ Degree(people[b]) > Degree(people[a])
          /\ peopleNodes[b].r < peopleNodes[a].r
    /\ \E c, d \in 1..Len(people) :
          /\ c < d
          /\ Degree(people[c]) = Degree(people[d])
          /\ peopleNodes[c].r = peopleNodes[d].r

\* C9 as claimed: the sample graph produces exactly 5 anchor edges.
C9_SampleFiveAnchorEdges ==
    people = SamplePeople => Cardinality(AnchorIdx) = 5

\* C9 amended: the sample graph produces exactly 6 anchor edges, one per
\* person.
C9_SampleSixAnchorEdges ==
    people = SamplePeople =>
        /\ Cardinality(AnchorIdx) = 6
        /\ {connectionData[k].toIndex : k \in AnchorIdx} = 0..5

\* C9 witness: the canvas shows the sample graph with its anchor edges.
C9_Witness ==
    /\ people = SamplePeople
    /\ \E k \in AnchorIdx : connectionData[k].toIndex = 5

\* C10 as claimed: deduplicating the sample connections yields exactly 5
\* unique peer edges.
C10_SampleFivePeerEdges ==
    people = SamplePeople => Cardinality(PeerIdx) = 5

\* C10 amended: deduplicating the sample connections yields exactly 6 unique
\* peer edges (1-2, 1-5, 2-3, 3-4, 4-5, 1-6).
C10_SampleSixPeerEdges ==
    people = SamplePeople =>
        /\ Cardinality(PeerIdx) = 6
        /\ {EdgePair(connectionData[k]) : k \in PeerIdx} =
              {{Str(1), Str(2)}, {Str(1), Str(5)}, {Str(2), Str(3)},
               {Str(3), Str(4)}, {Str(4), Str(5)}, {Str(1), Str(6)}}

\* C10 witness: the sample graph is shown and the peer edge 1-6, listed
\* from one side only, is among the produced edges.
C10_Witness ==
    /\ people = SamplePeople
    /\ \E k \in PeerIdx : EdgePair(connectionData[k]) = {Str(1), Str(6)}

\* The React key of an anchor edge is "me-" followed by the person id
IsAnchorKey(key) == Len(key) > Len(MeId) /\ SubSeq(key, 1, Len(MeId) + 1) = MeId \o <<Hyphen>>

AnchorEdgesTo(i) ==
    {k \in 1..Len(connectionData) :
        IsAnchorKey(connectionData[k].key) /\ connectionData[k].toIndex = i - 1}

\* C11: for every people list of any length, exactly one anchor-to-node
\* edge is produced for each person in the list and it is solid, and every
\* peer-to-peer edge produced is dashed.
C11_OneSolidAnchorEdgePerPerson ==
    /\ \A i \in 1..Len(people) :
          /\ Cardinality(AnchorEdgesTo(i)) = 1
          /\ \A k \in AnchorEdgesTo(i) : ~connectionData[k].dashed
    /\ \A k \in 1..Len(connectionData) :
          ~IsAnchorKey(connectionData[k].key) => connectionData[k].dashed

IsPresent(id) == \E j \in 1..Len(people) : people[j].id = id

HasAbsentRef(i) ==
    \E c \in 1..Len(people[i].connections) : ~IsPresent(people[i].connections[c])

\* C13: if a person's connections contain an id that is not in the people
\* list, no edge is produced for that reference (every edge joins two rendered
\* nodes), and that person still gets a node, an anchor edge and a peer edge
\* to every listed person that is present.
C13_AbsentReferenceSkipped ==
    \A i \in 1..Len(people) :
        HasAbsentRef(i) =>
            /\ \A k \in PeerIdx :
                  /\ connectionData[k].fromIndex \in 0..(Len(Rendered(peopleNodes)) - 1)
                  /\ connectionData[k].toIndex \in 0..(Len(Rendered(peopleNodes)) - 1)
            /\ Cardinality(PeerIdx) + Cardinality(AnchorIdx) = Len(connectionData)
            /\ NodeOf(peopleNodes, people[i].id) = i
            /\ uiNodes = peopleNodes => i <= Len(nodeState)
            /\ \E k \in AnchorIdx : connectionData[k].toIndex = i - 1
            /\ \A c \in 1..Len(people[i].connections) :
                  IsPresent(people[i].connections[c]) =>
                      \E k \in PeerIdx :
                          EdgePair(connectionData[k]) =
                              {people[i].id, people[i].connections[c]}

\* C14: with an empty people list the layout returns an empty node set, no
\* anchor edge and no peer edge is produced (and no node view is left once the
\* UI thread has taken over that render), and the anchor is still present at
\* the canvas centre.
C14_EmptyListAnchorAlone ==
    people = <<>> =>
        /\ peopleNodes = <<>>
        /\ connectionData = <<>>
        /\ uiNodes = peopleNodes => nodeState = <<>>
        /\ meNode.isMe /\ meNode.id = MeId
        /\ PosOf(meNode) = Center
        /\ mePos = Center

\* C14 witness: a filter that no person matches has emptied a list that was
\* not empty.
C14_Witness ==
    /\ people = <<>>
    /\ allPeople # <<>>
    /\ filterTags # {}
    /\ uiNodes = <<>>
    /\ lastOp = "commit"

---------------------------------------------------------------------------
(* Properties of the viewport scale (SpecScale)                            *)

ScaleInBounds == MIN_SCALE <= scale /\ scale <= MAX_SCALE

\* C1: in every reachable state - under any interleaving of pinch updates,
\* zoom-in and zoom-out taps, reset and the intermediate frames of the
\* springs the buttons start - the scale lies within [MIN_SCALE, MAX_SCALE].
C1_ScaleAlwaysInBounds == ScaleInBounds

\* C2: after every pinch update the scale lies within
\* [MIN_SCALE, MAX_SCALE], whatever scale the pinch start snapshotted and
\* however extreme or repeated the factors.
C2_PinchUpdateInBounds == lastOp = "pinchUpdate" => ScaleInBounds

\* C2 witness: a pinch that started while a zoom spring had carried the
\* scale past MAX_SCALE (so the snapshot itself is out of range) has been
\* updated, and the update left the scale at a bound.
C2_Witness ==
    /\ lastOp = "pinchUpdate"
    /\ savedScale > MAX_SCALE
    /\ scale = MAX_SCALE

---------------------------------------------------------------------------
(* Properties of one touch sequence (SpecTouch, SpecDrag)                  *)

TouchedNode == nodeState[NodeOf(uiNodes, touch.id)]

\* The touch is over and started on a peer node
NodeTouchOver == touch.phase = "lifted" /\ touch.target = "node"

PastDragThreshold == touch.maxDistSq >= PanMinDistance * PanMinDistance

\* C4: a touch on a peer node that stays under the movement threshold and
\* lifts before the tap's 200 ms limit calls onPersonPress exactly once, with
\* the person of the touched node; no touch calls it for the anchor (or the
\* empty canvas), and whenever onPersonPress is called - the tap ends on the
\* UI thread, the call runs on the JS thread - the person it carries is in
\* the people list of that moment.
C4_TapSelectsTouchedPerson ==
    /\ [](LET delivered == jsQueue \o callbacks
          IN /\ (NodeTouchOver /\ ~PastDragThreshold /\ ~touch.timedOut)
                    => /\ touch.calls = 1
                       /\ Len(delivered) = 1
                       /\ delivered[1].id = touch.id
             /\ touch.target \in {"anchor", "canvas"} => delivered = <<>>)
    /\ [][LET called == IF Len(jsQueue') > Len(jsQueue)
                        THEN <<jsQueue'[Len(jsQueue')]>>
                        ELSE IF Len(callbacks') > Len(callbacks)
                        THEN <<callbacks'[Len(callbacks')]>>
                        ELSE <<>>
          IN \A k \in 1..Len(called) :
                 \E i \in 1..Len(people') :
                     /\ people'[i].id = called[k].id
                     /\ people'[i].connections = called[k].connections
                     /\ people'[i].tags = called[k].tags]_vars

\* A quick tap on the second node, 3 pt of movement, has been delivered
C4_Witness ==
    /\ NodeTouchOver /\ ~touch.timedOut
    /\ touch.maxDistSq > 0 /\ ~PastDragThreshold
    /\ touch.id = people[2].id
    /\ jsQueue = <<>>
    /\ Len(callbacks) = 1 /\ callbacks[1].id = people[2].id

\* C5: a touch on a peer node that moves beyond the 5 pt drag threshold
\* calls onPersonPress zero times and drags the node (the node pan ran and
\* wrote the drag offset); no touch both calls onPersonPress and drags.
C5_DragNeverTaps ==
    /\ (NodeTouchOver /\ PastDragThreshold)
           => (touch.calls = 0 /\ touch.dragStarted /\ touch.dragUpdated)
    /\ ~(touch.calls > 0 /\ touch.dragStarted)

\* C6: for a touch that starts on a peer node the canvas pan never
\* activates and the viewport translation stays what it was at touch-down,
\* whatever the order of passing 5 pt, passing 10 pt and the 200 ms limit.
C6_NodeTouchNeverPansCanvas ==
    touch.target = "node"
        => /\ touch.canvasPan \notin {"active", "ended"}
           /\ translateX = touch.startTranslateX
           /\ translateY = touch.startTranslateY

\* The drag of the touched node was released
DragReleased == NodeTouchOver /\ touch.nodePan = "ended"

DragAtRest ==
    /\ touch.target = "node"
    /\ TouchedNode.dragX = 0 /\ TouchedNode.dragY = 0
    /\ TouchedNode.animX = NoAnim /\ TouchedNode.animY = NoAnim
    /\ ~TouchedNode.cbX /\ ~TouchedNode.cbY

\* C7: after a drag on a node is released, with any velocity, and no
\* further input arrives, the node's drag offset eventually is zero and
\* stays zero (decay, then the spring back to 0), and from the release on
\* an oscillation that runs on that node is never stopped.
C7_MomentumSettles ==
    /\ [](DragReleased => <>[]DragAtRest)
    /\ [][(DragReleased /\ TouchedNode.floating)
              => nodeState'[NodeOf(uiNodes, touch.id)].floating]_vars

\* A drag released with a nonzero velocity has come back to rest at zero
\* while the node's oscillation runs
C7_Witness ==
    /\ DragReleased /\ touch.velocityX # 0 /\ touch.velocityY # 0
    /\ DragAtRest /\ lastOp = "frame"
    /\ TouchedNode.floating

---------------------------------------------------------------------------
(* Properties of a relayout among gestures (SpecRelayout)                  *)

\* The people list a layout result was computed from
PersonsOf(nodes) ==
    [i \in 1..Len(nodes) |->
        Person(nodes[i].id, nodes[i].connections, nodes[i].tags)]

BasesOf(nodes) == [i \in 1..Len(nodes) |-> PosOf(nodes[i])]

\* The results of earlier layout calls that are still around: the one the
\* views were built from, and those on their way to the UI thread
EarlierLayouts ==
    {uiNodes} \cup {uiQueue[k].nodes :
                       k \in {j \in 1..Len(uiQueue) : uiQueue[j].op = "commit"}}

C17_AnchorStatic ==
    /\ mePos = Center
    /\ PosOf(meNode) = Center
    /\ touch.target = "anchor" =>
          /\ touch.tap = "none" /\ touch.nodePan = "none"
          /\ ~touch.dragStarted /\ ~touch.dragUpdated
          /\ touch.calls = 0

\* C17 witness: a touch on the anchor has moved far enough to pan the
\* canvas, nodes oscillate, and the list was laid out again.
C17_Witness ==
    /\ touch.target = "anchor"
    /\ touch.canvasPan = "active"
    /\ translateY # 0
    /\ filterTags # {}
    /\ \E i \in 1..Len(nodeState) : nodeState[i].floating

\* C19: when a node is unmounted its oscillation-start timer is cleared and
\* its oscillation and drag-momentum (decay and spring-back) animations are
\* cancelled: no timer, animation or animation callback of an unmounted node
\* is active afterwards: once the effects of the render ran only mounted
\* nodes have a timer, and an unmounted node has no oscillation, animation
\* or callback left.
C19_UnmountCancelsAll ==
    /\ ~react.effectsDue =>
          DOMAIN react.timers = 1..Len(Rendered(peopleNodes))
    /\ \A o \in orphans :
          /\ ~o.floating
          /\ ~NodeAnimating(o)

\* C20: a change of the people list cancels and restarts the per-node
\* animations of every node that stays mounted, whether or not its index
\* changed: the effects of the relayout arm its start timer anew, and when
\* the UI thread has taken over the relayout its oscillation is stopped and no
\* momentum animation or callback is left on it.
C20_RelayoutRestartsAnimations ==
    [][/\ (react.effectsDue /\ ~react'.effectsDue
            /\ react'.mounted # react.mounted) =>
             \A i \in 1..Len(react'.timers) :
                 NodeOf(react.mounted, Rendered(react'.mounted)[i].id) # 0 =>
                     react'.timers[i] = 1
       /\ (lastOp' = "commit" /\ uiNodes' # uiNodes) =>
             \A i \in 1..Len(nodeState') :
                 NodeOf(uiNodes, uiNodes'[i].id) # 0 =>
                     /\ ~nodeState'[i].floating
                     /\ ~NodeAnimating(nodeState'[i])]_vars

---------------------------------------------------------------------------
(* Properties of a touch on a moving node (SpecRegrab)                     *)

\* C18: when a drag starts on a node whose drag offset is being animated
\* (momentum decay or spring back), the step that starts the drag stops the
\* animation and snapshots the drag offset of that instant, and while the
\* drag is active no decay or spring-back animation runs on the node's drag
\* offset.
C18_DragStartStopsAnimation ==
    [][LET i == NodeOf(uiNodes, touch'.id)
       IN /\ (touch'.dragStarted /\ ~touch.dragStarted) =>
                 /\ nodeState'[i].animX = NoAnim
                 /\ nodeState'[i].animY = NoAnim
                 /\ nodeState'[i].savedDragX = nodeState[i].dragX
                 /\ nodeState'[i].savedDragY = nodeState[i].dragY
          /\ touch'.nodePan = "active" =>
                 /\ nodeState'[i].animX = NoAnim
                 /\ nodeState'[i].animY = NoAnim]_vars

---------------------------------------------------------------------------
(* Properties of the reset button (SpecReset)                              *)

AtIdentity ==
    /\ scale = INITIAL_SCALE /\ translateX = 0 /\ translateY = 0
    /\ scaleAnim = NoAnim /\ translateAnimX = NoAnim /\ translateAnimY = NoAnim

\* The longest step with which a value may land on its target: a twentieth
\* of the unit (0.05 of scale, 0.05 points)
LandingStep(unit) == unit \div 20

\* C15: after a press of reset, with no gesture or other button input
\* arriving, the viewport eventually is at scale 1 and translation (0, 0) with
\* no animation left, from every viewport state - also with a pan decay or a
\* zoom spring in flight. It does not jump: the step that carries out the
\* reset changes no value and starts a spring on each value that is off its
\* target, and once the reset has been carried out a spring ends on its
\* target only from nearby.
C15_ResetReachesIdentity ==
    /\ (lastOp = "handleReset") ~> AtIdentity
    /\ [][lastOp' = "reset" =>
             /\ scale' = scale /\ translateX' = translateX /\ translateY' = translateY
             /\ scale # INITIAL_SCALE => scaleAnim'.kind = "spring"
             /\ translateX # 0 => translateAnimX'.kind = "spring"
             /\ translateY # 0 => translateAnimY'.kind = "spring"]_vars
    /\ [][(lastOp' = "frame" /\ taps > 0 /\ uiQueue = <<>>) =>
             /\ (scaleAnim.kind = "spring" /\ scaleAnim' = NoAnim)
                    => Abs(scale - INITIAL_SCALE) < LandingStep(Unit)
             /\ (translateAnimX.kind = "spring" /\ translateAnimX' = NoAnim)
                    => Abs(translateX) < LandingStep(PointUnit)
             /\ (translateAnimY.kind = "spring" /\ translateAnimY' = NoAnim)
                    => Abs(translateY) < LandingStep(PointUnit)]_vars

\* C15 witness: the canvas was panned and released with momentum, reset was
\* pressed, and the springs have brought the viewport to the identity.
C15_Witness ==
    /\ AtIdentity
    /\ lastOp = "frame"
    /\ taps > 0
    /\ uiQueue = <<>>
    /\ touch.canvasPan = "ended"
    /\ touch.velocityY # 0

---------------------------------------------------------------------------
(* Properties of the canvas gestures (SpecCanvas)                          *)

\* C16: the canvas pan and the pinch run side by side. A pinch start or
\* update leaves the translation, the pan's snapshot, the pan's momentum and
\* the pan's state alone (an active pan stays active); a pan start or update
\* leaves the scale, the scale snapshot and the pinch alone.
C16_PanAndPinchIndependent ==
    [][/\ lastOp' \in {"pinchStart", "pinchUpdate"} =>
             /\ translateX' = translateX /\ translateY' = translateY
             /\ savedTranslateX' = savedTranslateX
             /\ savedTranslateY' = savedTranslateY
             /\ translateAnimX' = translateAnimX /\ translateAnimY' = translateAnimY
             /\ touch'.canvasPan = touch.canvasPan
       /\ (lastOp' = "touchMove" /\ touch'.canvasPan = "active") =>
             /\ scale' = scale /\ savedScale' = savedScale
             /\ scaleAnim' = scaleAnim
             /\ pinch' = pinch]_vars

\* C16 witness: a pinch has just updated the scale while the canvas pan is
\* active and has moved the canvas.
C16_Witness ==
    /\ pinch = "active"
    /\ touch.canvasPan = "active"
    /\ lastOp = "pinchUpdate"
    /\ scale # savedScale
    /\ translateY # savedTranslateY

---------------------------------------------------------------------------
(* Frame conditions of the node drag (SpecTouch)                           *)

\* The step starts, updates or releases the drag of the touched node
DragStep ==
    /\ touch.target = "node"
    /\ \/ lastOp' = "touchMove" /\ touch'.nodePan = "active"
       \/ lastOp' = "lift" /\ touch.nodePan = "active"

GestureOps == {"touchDown", "touchMove", "tapTimeout", "lift",
               "pinchStart", "pinchUpdate", "pinchEnd"}

\* C21: a step that starts, updates or releases the drag of node i leaves
\* node i's oscillation (and its pending timer), every other node's shared
\* values and the viewport scale and translation as they were; and no gesture
\* step stops the oscillation of a node.
C21_DragLeavesTheRestAlone ==
    [][/\ DragStep =>
             LET i == NodeOf(uiNodes, touch.id)
             IN /\ nodeState'[i].floating = nodeState[i].floating
                /\ react'.timers = react.timers
                /\ \A j \in 1..Len(nodeState) : j # i => nodeState'[j] = nodeState[j]
                /\ scale' = scale
                /\ translateX' = translateX /\ translateY' = translateY
       /\ lastOp' \in GestureOps =>
             \A j \in 1..Len(nodeState) : nodeState[j].floating => nodeState'[j].floating]_vars

---------------------------------------------------------------------------
(* Positions published for the edges (SpecRelayout)                        *)

\* The edges on the screen: those of the render the UI thread has taken over
DrawnEdges == BuildConnectionData(uiNodes)

\* C22: in every reachable state - so after every frame, after every drag
\* update and after a relayout, also one that the UI thread has yet to take
\* over - every edge on the screen ends at slots of node views, and the slot of
\* each node view holds that node's base position of the layout it is drawn
\* from plus the node's own oscillation offset plus its current drag offset,
\* which is the position the node is drawn at.
C22_EdgeEndpointsFollowNodes ==
    /\ \A e \in 1..Len(DrawnEdges) :
          /\ DrawnEdges[e].toIndex + 1 \in 1..Len(nodeState)
          /\ DrawnEdges[e].dashed =>
                DrawnEdges[e].fromIndex + 1 \in 1..Len(nodeState)
    /\ uiNodes = peopleNodes => DrawnEdges = connectionData
    /\ \A k \in 1..Len(nodeState) :
          /\ positions[k].base = PosOf(uiNodes[k])
          /\ positions[k].floatOf = uiNodes[k].id
          /\ positions[k].dragX = nodeState[k].dragX
          /\ positions[k].dragY = nodeState[k].dragY

\* C22 witness: after a relayout that moved a person to another slot, that
\* person's node oscillates, has been dragged away from its base position and
\* a frame has just been evaluated.
C22_Witness ==
    /\ filterTags # {}
    /\ lastOp = "frame"
    /\ \E k \in 1..Len(nodeState) :
          /\ NodeOf(calculateTreeLayout(allPeople, centerX, centerY), uiNodes[k].id) # k
          /\ nodeState[k].floating
          /\ nodeState[k].dragY # 0

---------------------------------------------------------------------------
(* The drag offset under a changing scale (SpecZoomDrag)                   *)

\* C24: after each update of a node drag the node's drag offset is, on each
\* axis, the snapshot taken at drag start plus the gesture's cumulative
\* translation divided by the viewport scale at the time of the update. The
\* snapshot is the drag offset the node had when the drag started.
C24_DragOffsetFollowsFinger ==
    [][(lastOp' = "touchMove" /\ touch'.nodePan = "active") =>
          LET i == NodeOf(uiNodes, touch.id)
              startX == IF touch.nodePan = "active" THEN nodeState[i].savedDragX
                        ELSE nodeState[i].dragX
              startY == IF touch.nodePan = "active" THEN nodeState[i].savedDragY
                        ELSE nodeState[i].dragY
          IN /\ nodeState'[i].savedDragX = startX
             /\ nodeState'[i].savedDragY = startY
             /\ nodeState'[i].dragX = startX + Div(touch'.offX * PointUnit * Unit, scale)
             /\ nodeState'[i].dragY = startY + Div(touch'.offY * PointUnit * Unit, scale)]_vars

\* C24 witness: a drag update has just run at a scale other than 1, in the
\* middle of a zoom spring, on a node whose snapshot is not zero.
C24_Witness ==
    /\ lastOp = "touchMove"
    /\ touch.nodePan = "active"
    /\ scale # INITIAL_SCALE
    /\ scaleAnim.kind = "spring"
    /\ nodeState[NodeOf(uiNodes, touch.id)].savedDragX # 0
    /\ touch.offY # 0

---------------------------------------------------------------------------
(* The zoom buttons (SpecZoom)                                             *)

\* Where the scale is heading: the target of its spring, or the scale itself
ScaleTarget == IF scaleAnim.kind = "spring" THEN scaleAnim.target ELSE scale

ZoomInTarget(s) == clamp(Div(s * ZoomStepNum, ZoomStepDen), MIN_SCALE, MAX_SCALE)
ZoomOutTarget(s) == clamp(Div(s * ZoomStepDen, ZoomStepNum), MIN_SCALE, MAX_SCALE)

\* The job the step has scheduled
Scheduled == uiQueue'[Len(uiQueue')]

\* C25: a zoom-in (zoom-out) tap changes no value and schedules a transition
\* to clamp(s * step) (clamp(s / step)) for the scale s at the instant of the
\* tap - also when a zoom or reset spring is in flight - which is MAX_SCALE
\* (MIN_SCALE) for a tap at that bound; the step that carries the tap out
\* leaves the scale value as it is and makes that the target, with a spring
\* towards it whenever it differs from the scale.
C25_ZoomTapTargetsClampedStep ==
    [][/\ lastOp' = "handleZoomIn" =>
             /\ scale' = scale /\ scaleAnim' = scaleAnim
             /\ Scheduled.op = "zoomIn"
             /\ Scheduled.target = ZoomInTarget(scale)
             /\ scale = MAX_SCALE => Scheduled.target = MAX_SCALE
       /\ lastOp' = "handleZoomOut" =>
             /\ scale' = scale /\ scaleAnim' = scaleAnim
             /\ Scheduled.op = "zoomOut"
             /\ Scheduled.target = ZoomOutTarget(scale)
             /\ scale = MIN_SCALE => Scheduled.target = MIN_SCALE
       /\ lastOp' \in {"zoomIn", "zoomOut"} =>
             /\ scale' = scale
             /\ ScaleTarget' = Head(uiQueue).target
             /\ ScaleTarget' # scale => scaleAnim'.kind = "spring"]_vars

\* C25 witness: a zoom-in press has just been carried out while an earlier
\* spring was in flight (its velocity is carried over), at a scale that is
\* neither a rest scale nor the earlier target, and the new target is the
\* clamped bound.
C25_Witness ==
    /\ lastOp = "zoomIn"
    /\ scaleAnim.kind = "spring"
    /\ scaleAnim.velocity # 0
    /\ scale \notin ZoomRestScales
    /\ scaleAnim.target = MAX_SCALE

---------------------------------------------------------------------------
(* The canvas pan and its momentum (SpecPan)                               *)

PanAtRest == translateAnimX = NoAnim /\ translateAnimY = NoAnim

\* x moved from a to b along the direction of the velocity v
MovedAlong(a, b, v) ==
    IF v > 0 THEN b > a ELSE IF v < 0 THEN b < a ELSE b = a

\* The momentum of one axis over one frame after the release with velocity v:
\* it moves the value in the release direction with a smaller speed, or has
\* ended and the value stays
MomentumFrame(x, anim, x2, anim2, v) ==
    IF anim.kind = "decay"
    THEN /\ MovedAlong(x, x2, v)
         /\ anim2 = NoAnim \/ (anim2.kind = "decay" /\ Abs(anim2.velocity) < Abs(anim.velocity))
    ELSE x2 = x /\ anim2 = NoAnim

\* C26: while a canvas pan is active the translation is the snapshot taken
\* at its start (the translation of that moment) plus the gesture's
\* cumulative delta; after the release every frame moves each axis in its
\* release direction with a decaying speed, or the axis has come to rest and
\* stays where it is, so the translation is never pulled back; and after the
\* release both axes eventually come to rest.
C26_PanFollowsThenCoasts ==
    /\ [](touch.canvasPan = "active" =>
             /\ translateX = savedTranslateX + touch.offX * PointUnit
             /\ translateY = savedTranslateY + touch.offY * PointUnit)
    /\ [][(lastOp' = "touchMove" /\ touch'.canvasPan = "active") =>
             IF touch.canvasPan = "active"
             THEN savedTranslateX' = savedTranslateX /\ savedTranslateY' = savedTranslateY
             ELSE savedTranslateX' = translateX /\ savedTranslateY' = translateY]_vars
    /\ [][(touch.phase = "lifted" /\ touch.canvasPan = "ended") =>
             /\ MomentumFrame(translateX, translateAnimX, translateX', translateAnimX',
                              touch.velocityX)
             /\ MomentumFrame(translateY, translateAnimY, translateY', translateAnimY',
                              touch.velocityY)]_vars
    /\ (touch.phase = "lifted") ~> PanAtRest

\* C26 witness: a pan that started from the translation an earlier pan left
\* (the snapshot is not zero) was released with a velocity on both axes, and
\* its momentum has run out away from the release point.
C26_Witness ==
    /\ touch.phase = "lifted" /\ touch.canvasPan = "ended"
    /\ lastOp = "frame"
    /\ savedTranslateY # 0
    /\ touch.velocityX < 0 /\ touch.velocityY > 0
    /\ PanAtRest
    /\ translateX < savedTranslateX + touch.offX * PointUnit
    /\ translateY > savedTranslateY + touch.offY * PointUnit

---------------------------------------------------------------------------
(* The twenty position slots (SpecGraph)                                   *)

\* The persons of the list past the twentieth, as indexes into people
PastSlots == {i \in 1..Len(people) : i > MaxSlots}

\* C27: at most 20 peer nodes are rendered; a person at input index 20 or
\* higher has no node, no anchor edge and no peer edge, and no edge refers to
\* such a person; yet the layout has ranked that person and given them a ring
\* slot of their own that no other person is given.
C27_TwentyNodesAtMost ==
    /\ Len(nodeState) <= MaxSlots
    /\ Len(nodeState) = Len(Rendered(uiNodes))
    /\ Len(Rendered(peopleNodes)) <= MaxSlots
    /\ \A k \in 1..Len(connectionData) :
          /\ connectionData[k].toIndex \in 0..(MaxSlots - 1)
          /\ connectionData[k].dashed => connectionData[k].fromIndex \in 0..(MaxSlots - 1)
    /\ \A i \in PastSlots :
          /\ peopleNodes[i].id = people[i].id
          /\ \A k \in 1..Len(connectionData) :
                /\ connectionData[k].key # MeId \o <<Hyphen>> \o people[i].id
                /\ connectionData[k].toIndex # i - 1
                /\ connectionData[k].dashed => connectionData[k].fromIndex # i - 1
          /\ \E k \in 1..Len(nodePositionSets(people)) :
                LET sets == nodePositionSets(people)
                IN /\ sets[k].id = people[i].id
                   /\ sets[k].r > 0
                   /\ \A j \in 1..Len(sets) :
                         j # k => <<sets[j].r, sets[j].num, sets[j].den>>
                                     # <<sets[k].r, sets[k].num, sets[k].den>>

\* C27 witness: a list of more than 20 people in which a rendered person
\* lists a person past the twentieth, and a person past the twentieth ranks
\* ahead of rendered people and sits on a ring inside theirs.
C27_Witness ==
    /\ PastSlots # {}
    /\ \E i \in PastSlots, j \in 1..MaxSlots : Lists(j, people[i].id)
    /\ \E i \in PastSlots, j \in 1..MaxSlots : peopleNodes[i].r < peopleNodes[j].r

---------------------------------------------------------------------------
(* Peer edges and the dedup key (SpecKeys, SpecGraph)                      *)

RenderedIdx == 1..Len(Rendered(peopleNodes))

\* Rendered persons i and j are connected: one lists the other
Connected(i, j) == Lists(i, people[j].id) \/ Lists(j, people[i].id)

\* The peer edges whose two ends are the nodes i and j
PeerEdgesJoining(i, j) ==
    {k \in PeerIdx : {connectionData[k].fromIndex, connectionData[k].toIndex} = {i - 1, j - 1}}

\* C28: for every two distinct rendered people one of whom lists the other,
\* exactly one peer edge joins them, and the dedup keys of two different
\* connected pairs are different.
C28_OneEdgePerConnectedPair ==
    /\ \A i, j \in RenderedIdx :
          (i # j /\ Connected(i, j)) => Cardinality(PeerEdgesJoining(i, j)) = 1
    /\ \A i, j, m, n \in RenderedIdx :
          (i # j /\ m # n /\ {i, j} # {m, n} /\ Connected(i, j) /\ Connected(m, n)) =>
              DedupKey(people[i].id, people[j].id) # DedupKey(people[m].id, people[n].id)

\* C29: no peer edge has the same node at both ends, also when a person's
\* connections contain that person's own id.
C29_NoSelfEdge ==
    \A k \in PeerIdx : connectionData[k].fromIndex # connectionData[k].toIndex

---------------------------------------------------------------------------
(* The early static canvas (SpecEarly)                                     *)

\* The steps that set userMoved: the two gesture starts, and the arrival of
\* a zoom button's writes
EarlyMovers == {"panStart", "pinchStart", "zoomIn", "zoomOut"}

\* The viewport of the early canvas: what the transform is built from
EarlyViewport(e) == <<e.tx, e.ty, e.scale, e.scaleAnim>>

\* C30: in the early static canvas userMoved is set by a pan start, a pinch
\* start or a zoom button tap, by nothing else, and is never cleared; while it
\* is false a change of the people-derived initial offset puts the
\* translation at the new offset and the scale at 1; once it is true the
\* writes of a people change leave the scale and the translation as they are.
C30_UserMovedLatches ==
    /\ [][early.userMoved => early'.userMoved]_vars
    /\ [][early'.op \in EarlyMovers => early'.userMoved]_vars
    /\ [][(~early.userMoved /\ early'.userMoved) => early'.op \in EarlyMovers]_vars
    /\ [][(early'.op = "effect" /\ ~early.userMoved) =>
             /\ early'.tx = Head(early.pending).x
             /\ early'.ty = Head(early.pending).y
             /\ early'.scale = INITIAL_SCALE
             /\ early'.scaleAnim = NoAnim]_vars
    /\ [][(early'.op \in {"people", "effect"} /\ early.userMoved) =>
             EarlyViewport(early') = EarlyViewport(early)]_vars

===========================================================================
